---- MODULE Spec2Model ----
(***************************************************************************)
(* AUXCTMailer: the record enrichment and rule-evaluation pipeline         *)
(* (auxctmailer/context.py) and the member table loader                    *)
(* (auxctmailer/database.py), as state machines.                           *)
(*                                                                         *)
(* Python values are tagged records; a Python str is a sequence of         *)
(* characters, each character a one-element token (an ASCII character is   *)
(* the one-character string, a non-ASCII character is named by its code    *)
(* point, "U+00E9").  A dict is the sequence of its items in insertion     *)
(* order.  A datetime is [day, tod]: the proleptic Gregorian ordinal of    *)
(* its date and the time of day in ticks.                                  *)
(***************************************************************************)
EXTENDS Integers, Sequences, FiniteSets, TLC

VARIABLES
    pc,               \* where the caller is: before or after which call
    clock,            \* the time datetime.now() returns
    ticks,            \* how often the clock has advanced
    data,             \* the dict handed to the function (mutated in place)
    given,            \* the items of that dict when the last call began
    result,           \* the dict the function returned
    extraction_date,  \* the extraction_date argument
    courses_csv,      \* the file the courses_csv argument names
    training_csv,     \* the file MemberDatabase.training_csv names
    email_csv,        \* the file MemberDatabase.email_csv names
    units_csv,        \* the file MemberDatabase.units_csv names
    members_df,       \* MemberDatabase.members_df
    units_df,         \* MemberDatabase.units_df
    raised            \* the exception that escaped the last call, if any

vars == <<pc, clock, ticks, data, given, result, extraction_date, courses_csv,
          training_csv, email_csv, units_csv, members_df, units_df, raised>>

-----------------------------------------------------------------------------
(* Bounds of the model. *)

\* Ticks of the clock in one day: tod 0 is midnight, the others are later.
TicksPerDay == 3
\* The largest number of items of a record handed to normalize_keys.
MaxKeys == 3
\* How often the clock may advance before a call.
MaxTicks == 2

-----------------------------------------------------------------------------
(* Python values. *)

None == [t |-> "none"]
NaN == [t |-> "nan"]
Inf == [t |-> "inf"]
PyInt(n) == [t |-> "int", n |-> n]
\* A float with an integral part w and a fraction of f tenths (same sign).
PyFloat(w, f) == [t |-> "float", w |-> w, f |-> f]
PyBool(b) == [t |-> "bool", b |-> b]
PyStr(s) == [t |-> "str", s |-> s]
PyList(l) == [t |-> "list", l |-> l]

\* The characters of an ASCII literal.
Chars(lit) == [i \in 1..Len(lit) |-> SubSeq(lit, i, i)]
Str(lit) == PyStr(Chars(lit))

Digits == <<"0", "1", "2", "3", "4", "5", "6", "7", "8", "9">>
DigitSet == {Digits[i] : i \in 1..10}
DigitVal(c) == (CHOOSE i \in 1..10 : Digits[i] = c) - 1

UpperAscii == Chars("ABCDEFGHIJKLMNOPQRSTUVWXYZ")
LowerAscii == Chars("abcdefghijklmnopqrstuvwxyz")
UpperSet == {UpperAscii[i] : i \in 1..26}
LowerSet == {LowerAscii[i] : i \in 1..26}
\* Non-ASCII letters of the model's alphabet: E-acute and e-acute.
UpperOther == <<"U+00C9">>
LowerOther == <<"U+00E9">>
\* Python's whitespace, as far as the alphabet has it.
Whitespace == {" ", "\t", "\n"}

\* str.lower(), one character.
LowerChar(c) ==
    IF c \in UpperSet THEN LowerAscii[CHOOSE i \in 1..26 : UpperAscii[i] = c]
    ELSE IF c = UpperOther[1] THEN LowerOther[1]
    ELSE c

\* str.lower()
Lower(s) == [i \in 1..Len(s) |-> LowerChar(s[i])]

RECURSIVE LStrip(_)
LStrip(s) == IF s # <<>> /\ Head(s) \in Whitespace THEN LStrip(Tail(s)) ELSE s

RECURSIVE RStrip(_)
RStrip(s) ==
    IF s # <<>> /\ s[Len(s)] \in Whitespace
    THEN RStrip(SubSeq(s, 1, Len(s) - 1)) ELSE s

\* str.strip()
Strip(s) == RStrip(LStrip(s))

\* The decimal digits of a natural number.
RECURSIVE NatStr(_)
NatStr(n) ==
    IF n < 10 THEN <<Digits[n + 1]>>
    ELSE NatStr(n \div 10) \o <<Digits[(n % 10) + 1]>>

IntStr(n) == IF n < 0 THEN <<"-">> \o NatStr(-n) ELSE NatStr(n)

\* The value of a non-empty sequence of ASCII digits.
RECURSIVE DigitsVal(_)
DigitsVal(s) ==
    IF s = <<>> THEN 0
    ELSE 10 * DigitsVal(SubSeq(s, 1, Len(s) - 1)) + DigitVal(s[Len(s)])

AllDigits(s) == \A i \in 1..Len(s) : s[i] \in DigitSet

\* The characters \d matches in a str pattern: the decimal digits of Unicode,
\* of which the alphabet has those of ASCII and ARABIC-INDIC DIGIT ONE.
DecimalSet == DigitSet \cup {"U+0661"}

\* str.isdigit(): decimal digits and other digit characters, of which the
\* alphabet has SUPERSCRIPT TWO.
isdigit(s) ==
    s # <<>> /\ \A i \in 1..Len(s) : s[i] \in DecimalSet \cup {"U+00B2"}

\* str(x)
PyStrOf(x) ==
    CASE x.t = "str" -> x.s
      [] x.t = "int" -> IntStr(x.n)
      [] x.t = "float" ->
            (IF x.w < 0 \/ x.f < 0 THEN <<"-">> ELSE <<>>)
            \o NatStr(IF x.w < 0 THEN -x.w ELSE x.w) \o <<".">>
            \o NatStr(IF x.f < 0 THEN -x.f ELSE x.f)
      [] x.t = "bool" -> IF x.b THEN Chars("True") ELSE Chars("False")
      [] x.t = "nan" -> Chars("nan")
      [] x.t = "inf" -> Chars("inf")
      [] x.t = "none" -> Chars("None")
      [] OTHER -> Chars("[...]")

\* bool(x): what "x or y" and "if x" test.
Truthy(x) ==
    CASE x.t = "none" -> FALSE
      [] x.t = "str" -> x.s # <<>>
      [] x.t = "int" -> x.n # 0
      [] x.t = "float" -> x.w # 0 \/ x.f # 0
      [] x.t = "bool" -> x.b
      [] x.t = "list" -> x.l # <<>>
      [] OTHER -> TRUE

\* x or y
PyOr(x, y) == IF Truthy(x) THEN x ELSE y

-----------------------------------------------------------------------------
(* dict: the items in insertion order, [k, v]. *)

Keys(d) == {d[i].k : i \in 1..Len(d)}
HasKey(d, k) == \E i \in 1..Len(d) : d[i].k = k
\* d[k], for a key the dict has
Item(d, k) == d[CHOOSE i \in 1..Len(d) : d[i].k = k].v
\* d.get(k)
Get(d, k) == IF HasKey(d, k) THEN Item(d, k) ELSE None
\* d[k] = v: an existing key keeps its place, a new one goes last
Put(d, k, v) ==
    IF HasKey(d, k)
    THEN [i \in 1..Len(d) |-> IF d[i].k = k THEN [k |-> k, v |-> v] ELSE d[i]]
    ELSE Append(d, [k |-> k, v |-> v])
\* d1 == d2: the same keys with the same values, whatever the order
DictEq(d1, d2) ==
    /\ Keys(d1) = Keys(d2)
    /\ \A k \in Keys(d1) : Item(d1, k) = Item(d2, k)

-----------------------------------------------------------------------------
(* datetime: the proleptic Gregorian calendar, strptime and strftime. *)

IsLeap(y) == y % 4 = 0 /\ (y % 100 # 0 \/ y % 400 = 0)

DaysInMonth(y, m) ==
    IF m = 2 THEN (IF IsLeap(y) THEN 29 ELSE 28)
    ELSE IF m \in {4, 6, 9, 11} THEN 30 ELSE 31

\* The days of year y before the first of month m.
RECURSIVE DaysBeforeMonth(_, _)
DaysBeforeMonth(y, m) ==
    IF m = 1 THEN 0 ELSE DaysBeforeMonth(y, m - 1) + DaysInMonth(y, m - 1)

\* The days before January 1 of year y.
DaysBeforeYear(y) ==
    (y - 1) * 365 + ((y - 1) \div 4) - ((y - 1) \div 100) + ((y - 1) \div 400)

\* date(y, m, d).toordinal()
Ymd2Ord(y, m, d) == DaysBeforeYear(y) + DaysBeforeMonth(y, m) + d

\* date.fromordinal(n).year
YearOf(n) ==
    CHOOSE y \in (n \div 366)..((n \div 365) + 1) :
        DaysBeforeYear(y) < n /\ n <= DaysBeforeYear(y + 1)

MonthOf(n) ==
    LET y == YearOf(n)
        r == n - DaysBeforeYear(y)
    IN CHOOSE m \in 1..12 :
        DaysBeforeMonth(y, m) < r /\ r <= DaysBeforeMonth(y, m) + DaysInMonth(y, m)

DayOfMonth(n) ==
    LET y == YearOf(n) IN n - DaysBeforeYear(y) - DaysBeforeMonth(y, MonthOf(n))

\* datetime(y, m, d): midnight of that date
DateTime(y, m, d) == [day |-> Ymd2Ord(y, m, d), tod |-> 0]

\* dt + timedelta(days=n)
PlusDays(dt, n) == [day |-> dt.day + n, tod |-> dt.tod]

\* (a - b).days: the floor of the difference in days (timedelta normalizes
\* a negative difference to days < 0 and a non-negative rest).
DaysBetween(a, b) == a.day - b.day - (IF a.tod < b.tod THEN 1 ELSE 0)

\* a < b on datetimes
Before(a, b) == a.day < b.day \/ (a.day = b.day /\ a.tod < b.tod)

Pad2(n) == IF n < 10 THEN <<"0">> \o NatStr(n) ELSE NatStr(n)

\* dt.strftime("%m/%d/%Y") (years of four digits)
StrfTime(dt) ==
    Pad2(MonthOf(dt.day)) \o <<"/">> \o Pad2(DayOfMonth(dt.day)) \o <<"/">>
    \o NatStr(YearOf(dt.day))

\* The places of the character c in s.
Places(s, c) == {i \in 1..Len(s) : s[i] = c}

\* The directive %m: 1[0-2]|0[1-9]|[1-9]
IsMonthText(s) ==
    \/ Len(s) = 1 /\ s[1] \in DigitSet \ {"0"}
    \/ Len(s) = 2 /\ s[1] = "1" /\ s[2] \in {"0", "1", "2"}
    \/ Len(s) = 2 /\ s[1] = "0" /\ s[2] \in DigitSet \ {"0"}

\* The directive %d: 3[01]|[12]\d|0[1-9]|[1-9]| [1-9]
IsDayText(s) ==
    \/ Len(s) = 1 /\ s[1] \in DigitSet \ {"0"}
    \/ Len(s) = 2 /\ s[1] = "3" /\ s[2] \in {"0", "1"}
    \/ Len(s) = 2 /\ s[1] \in {"1", "2"} /\ s[2] \in DigitSet
    \/ Len(s) = 2 /\ s[1] \in {"0", " "} /\ s[2] \in DigitSet \ {"0"}

\* The directive %Y: \d\d\d\d
IsYearText(s) == Len(s) = 4 /\ AllDigits(s)

\* The number in the text of a %m or %d field (a leading blank counts 0).
FieldVal(s) == DigitsVal(IF Head(s) = " " THEN Tail(s) ELSE s)

\* datetime.strptime(s, "%m/%d/%Y"): [ok, dt]; not ok is ValueError (the
\* text does not match the format, unconverted data remains, the day is out
\* of range for the month, or the year is 0).
StrpTime(s) ==
    LET sl == Places(s, "/")
        bad == [ok |-> FALSE, dt |-> [day |-> 0, tod |-> 0]]
    IN IF Cardinality(sl) # 2 THEN bad
       ELSE LET p1 == CHOOSE i \in sl : \A j \in sl : i <= j
                p2 == CHOOSE i \in sl : \A j \in sl : j <= i
                ms == SubSeq(s, 1, p1 - 1)
                ds == SubSeq(s, p1 + 1, p2 - 1)
                ys == SubSeq(s, p2 + 1, Len(s))
            IN IF ~(IsMonthText(ms) /\ IsDayText(ds) /\ IsYearText(ys)) THEN bad
               ELSE LET m == FieldVal(ms)
                        d == FieldVal(ds)
                        y == DigitsVal(ys)
                    IN IF y < 1 \/ d > DaysInMonth(y, m) THEN bad
                       ELSE [ok |-> TRUE, dt |-> DateTime(y, m, d)]

-----------------------------------------------------------------------------
(* context.normalize_keys *)

\* What the pattern \w matches (Python 3, str pattern: Unicode word
\* characters): letters of any script, digits and the underscore.
IsWordChar(c) ==
    \/ c \in UpperSet \/ c \in LowerSet \/ c \in DigitSet \/ c = "_"
    \/ c = UpperOther[1] \/ c = LowerOther[1]

\* s.replace(c, r) for a one-character c
RECURSIVE Replace(_, _, _)
Replace(s, c, r) ==
    IF s = <<>> THEN <<>>
    ELSE (IF Head(s) = c THEN r ELSE <<Head(s)>>) \o Replace(Tail(s), c, r)

\* re.sub(r'[^\w_]', '', s)
RECURSIVE SubNonWord(_)
SubNonWord(s) ==
    IF s = <<>> THEN <<>>
    ELSE (IF IsWordChar(Head(s)) THEN <<Head(s)>> ELSE <<>>)
         \o SubNonWord(Tail(s))

\* A slip in the alias: '#' replaced by 'Num' (after lower() has run).
normalized_key_Num(key) ==
    SubNonWord(
      Replace(Replace(Replace(Replace(Lower(key),
        " ", <<"_">>), "#", Chars("Num")), "?", <<>>), "/", <<"_">>))

\* normalized_key of one key (context.py lines 29-31)
normalized_key(key) ==
    SubNonWord(
      Replace(Replace(Replace(Replace(Lower(key),
        " ", <<"_">>), "#", Chars("num")), "?", <<>>), "/", <<"_">>))

\* The loop of normalize_keys from item i on; normalized is the dict so far.
RECURSIVE normalize_loop(_, _, _)
normalize_loop(normalized, d, i) ==
    IF i > Len(d) THEN normalized
    ELSE normalize_loop(Put(normalized, normalized_key(d[i].k), d[i].v),
                        d, i + 1)

\* A slip: the result starts empty instead of as a copy of the record.
normalize_keys_no_copy(d) == normalize_loop(<<>>, d, 1)

\* normalize_keys(data): a copy of the record, then one alias per item.
normalize_keys(d) == normalize_loop(d, d, 1)

\* The column names the records of the model draw from.
KeyPool ==
    { Chars("First Name"), Chars("first_name"), Chars("FIRST NAME"),
      Chars("Member #"), Chars("Due? Y/N"),
      Chars("Caf") \o <<"U+00E9", " ", "U+2192">> }

\* The values of the records handed to normalize_keys.
KeyValues == {Str("JOHN"), PyInt(7)}

KeyItems == [k : KeyPool, v : KeyValues]

\* Every record of at most MaxKeys items with distinct keys.
KeyRecords ==
    UNION { { d \in [1..n -> KeyItems] :
                \A i, j \in 1..n : i # j => d[i].k # d[j].k }
            : n \in 0..MaxKeys }

\* No exception escaped.
NoException == [type |-> "none", message |-> ""]

\* A datetime that stands for "no call to now() yet".
NoClock == [day |-> 0, tod |-> 0]
NoCsv == [exists |-> FALSE, readable |-> FALSE, rows |-> <<>>]

KeysInit ==
    /\ pc = "start"
    /\ data \in KeyRecords
    /\ given = data
    /\ result = <<>>
    /\ clock = NoClock
    /\ ticks = 0
    /\ extraction_date = None
    /\ courses_csv = NoCsv
    /\ training_csv = NoCsv
    /\ email_csv = NoCsv
    /\ units_csv = NoCsv
    /\ members_df = None
    /\ units_df = None
    /\ raised = NoException

\* result = normalize_keys(data)
NormalizeKeys ==
    /\ pc = "start"
    /\ result' = normalize_keys(data)
    /\ given' = data
    /\ pc' = "normalized"
    /\ UNCHANGED <<data, clock, ticks, extraction_date, courses_csv,
                   training_csv, email_csv, units_csv, members_df, units_df,
                   raised>>

\* The caller normalizes the mapping it got back: normalize_keys(result).
NormalizeKeysAgain ==
    /\ pc = "normalized"
    /\ data' = result
    /\ given' = result
    /\ result' = normalize_keys(result)
    /\ pc' = "renormalized"
    /\ UNCHANGED <<clock, ticks, extraction_date, courses_csv, training_csv,
                   email_csv, units_csv, members_df, units_df, raised>>

KeysNext == NormalizeKeys \/ NormalizeKeysAgain

SpecKeys == KeysInit /\ [][KeysNext]_vars

\* The place of the last item of d whose alias is c.
LastWithAlias(d, c) ==
    CHOOSE i \in 1..Len(d) :
        /\ normalized_key(d[i].k) = c
        /\ \A j \in (i + 1)..Len(d) : normalized_key(d[j].k) # c

Aliases(d) == {normalized_key(d[i].k) : i \in 1..Len(d)}

\* C7: normalize_keys removes no key; a key that is no alias keeps its value,
\* and every alias holds the value of the last item (in the record's order)
\* that has this alias, so without a collision both the key and its alias
\* hold the key's value.
C7_NonDestructive ==
    pc = "normalized" =>
        /\ Keys(data) \subseteq Keys(result)
        /\ Aliases(data) \subseteq Keys(result)
        /\ \A c \in Aliases(data) :
              Item(result, c) = data[LastWithAlias(data, c)].v
        /\ \A k \in Keys(data) \ Aliases(data) :
              Item(result, k) = Item(data, k)
        /\ \A i \in 1..Len(data) :
              (\A j \in 1..Len(data) :
                   j # i => /\ normalized_key(data[j].k) # normalized_key(data[i].k)
                            /\ normalized_key(data[j].k) # data[i].k
                            /\ data[j].k # normalized_key(data[i].k))
              => /\ Item(result, data[i].k) = data[i].v
                 /\ Item(result, normalized_key(data[i].k)) = data[i].v

\* C7 witness: three items collide on one alias, with different values, and
\* the alias is itself a key of the record.
C7_Witness ==
    /\ pc = "normalized"
    /\ Len(data) = 3
    /\ \A i \in 1..3 : normalized_key(data[i].k) = Chars("first_name")
    /\ data[1].k = Chars("first_name")
    /\ data[1].v # data[3].v
    /\ Item(result, Chars("first_name")) = data[3].v

\* C8: normalizing an already normalized mapping changes nothing: the same
\* keys with the same values.
C8_Idempotent ==
    pc = "renormalized" => DictEq(result, data)

\* C8 witness: the second pass ran on a mapping with colliding keys and a
\* key that needed rewriting.
C8_Witness ==
    /\ pc = "renormalized"
    /\ HasKey(data, Chars("Member #"))
    /\ HasKey(data, Chars("First Name"))
    /\ HasKey(data, Chars("FIRST NAME"))
    /\ Item(data, Chars("First Name")) # Item(data, Chars("FIRST NAME"))

\* C9 (as claimed): every alias consists only of a-z, 0-9 and '_'.
C9_AliasAsciiOnly ==
    pc = "normalized" =>
        \A i \in 1..Len(data) :
            LET alias == normalized_key(data[i].k) IN
            /\ HasKey(result, alias)
            /\ \A j \in 1..Len(alias) :
                  alias[j] \in LowerSet \cup DigitSet \cup {"_"}

-----------------------------------------------------------------------------
(* The clock. *)

\* The instant one tick after dt.
NextTick(dt) ==
    IF dt.tod + 1 < TicksPerDay THEN [day |-> dt.day, tod |-> dt.tod + 1]
    ELSE [day |-> dt.day + 1, tod |-> 0]

\* The instants a second call of datetime.now() in the same function may
\* return after a first call returned dt: the same instant or a later one.
LaterNow(dt) == {dt, NextTick(dt)}

\* Time passes before the call.
Tick ==
    /\ pc = "start"
    /\ ticks < MaxTicks
    /\ clock' = NextTick(clock)
    /\ ticks' = ticks + 1
    /\ UNCHANGED <<pc, data, given, result, extraction_date, courses_csv,
                   training_csv, email_csv, units_csv, members_df, units_df,
                   raised>>

-----------------------------------------------------------------------------
(* context.check_uniform_inspection *)

K_uniform_inspection == Chars("uniform_inspection")
K_Uniform_Inspection == Chars("Uniform Inspection")
K_uniform_exempt == Chars("uniform_exempt")
K_Uniform_Exempt == Chars("Uniform Exempt")
K_needs_uniform_inspection == Chars("needs_uniform_inspection")

\* A slip: only the text '1' counts as exempt.
is_uniform_exempt_1_only(uniform_exempt) ==
    uniform_exempt # None /\ Strip(PyStrOf(uniform_exempt)) = Chars("1")

\* context.py lines 107-109
is_uniform_exempt(uniform_exempt) ==
    /\ uniform_exempt # None
    /\ Strip(PyStrOf(uniform_exempt)) \in {Chars("1"), Chars("1.0")}

\* A slip: <= in place of <.
inspection_not_after_year_start(inspection_date, now) ==
    ~Before(DateTime(YearOf(now.day), 1, 1), inspection_date)

\* inspection_date < datetime(now.year, 1, 1) (context.py lines 121-123)
inspection_before_year_start(inspection_date, now) ==
    Before(inspection_date, DateTime(YearOf(now.day), 1, 1))

\* A slip: the except branch does not clear the value it could not parse.
inspection_outcome_keeps_bad(uniform_inspection, exempt, now) ==
    IF exempt THEN [needs |-> FALSE, ui |-> uniform_inspection]
    ELSE IF /\ Truthy(uniform_inspection)
            /\ Strip(PyStrOf(uniform_inspection)) # <<>>
            /\ Lower(PyStrOf(uniform_inspection)) # Chars("nan")
    THEN LET p == StrpTime(Strip(PyStrOf(uniform_inspection))) IN
         IF p.ok
         THEN [needs |-> inspection_before_year_start(p.dt, now),
               ui |-> uniform_inspection]
         ELSE [needs |-> TRUE, ui |-> uniform_inspection]
    ELSE [needs |-> TRUE, ui |-> None]

\* needs_inspection and the cleaned uniform_inspection (context.py lines
\* 111-131)
inspection_outcome(uniform_inspection, exempt, now) ==
    IF exempt THEN [needs |-> FALSE, ui |-> uniform_inspection]
    ELSE IF /\ Truthy(uniform_inspection)
            /\ Strip(PyStrOf(uniform_inspection)) # <<>>
            /\ Lower(PyStrOf(uniform_inspection)) # Chars("nan")
    THEN LET p == StrpTime(Strip(PyStrOf(uniform_inspection))) IN
         IF p.ok
         THEN [needs |-> inspection_before_year_start(p.dt, now),
               ui |-> uniform_inspection]
         ELSE [needs |-> TRUE, ui |-> None]
    ELSE [needs |-> TRUE, ui |-> None]

\* check_uniform_inspection(data) at time now: the dict after the call.
check_uniform_inspection(d, now) ==
    LET uniform_inspection ==
            PyOr(Get(d, K_uniform_inspection), Get(d, K_Uniform_Inspection))
        uniform_exempt ==
            PyOr(Get(d, K_uniform_exempt), Get(d, K_Uniform_Exempt))
        exempt == is_uniform_exempt(uniform_exempt)
        out == inspection_outcome(uniform_inspection, exempt, now)
    IN Put(Put(Put(d, K_uniform_inspection, out.ui),
               K_uniform_exempt, PyBool(exempt)),
           K_needs_uniform_inspection, PyBool(out.needs))

\* "The key is not in the dict", when a record is put together.
Absent == [t |-> "absent"]

\* The dict with the given items, those with an Absent value left out.
RECURSIVE DictOf(_)
DictOf(items) ==
    IF items = <<>> THEN <<>>
    ELSE IF Head(items).v = Absent THEN DictOf(Tail(items))
    ELSE <<Head(items)>> \o DictOf(Tail(items))

InspectionValues ==
    { None, NaN, Str(""), Str("  "), Str("nan"), Str("NaN"), Str(" nan "),
      Str("12/31/2024"), Str("1/1/2025"), Str("12/31/2025"), Str("01/01/2026"),
      Str(" 6/15/2027 "), Str("2/30/2026"), Str("2026-02-20"),
      PyInt(0), PyInt(20260220) }

ExemptValues ==
    { None, NaN, PyInt(0), PyInt(1), PyInt(11), PyFloat(1, 0), PyFloat(0, 0),
      PyBool(TRUE), Str("1"), Str(" 1 "), Str("1.0"), Str("1.00"), Str(""),
      Str("yes") }

\* The (normalized key, original key) values of a field: one key only, both
\* keys with one value, or both keys with different values.
FieldPairs(values, divergent) ==
    {<<Absent, Absent>>}
    \cup {<<v, Absent>> : v \in values}
    \cup {<<Absent, v>> : v \in values}
    \cup {<<v, v>> : v \in values}
    \cup divergent

InspectionPairs ==
    FieldPairs(InspectionValues,
               { <<Str(""), Str("1/1/2026")>>, <<Str("12/31/2025"), Str("1/1/2026")>>,
                 <<Str("2026-02-20"), Str("1/1/2026")>>, <<None, Str("nan")>> })

ExemptPairs ==
    FieldPairs(ExemptValues,
               { <<PyInt(0), PyInt(1)>>, <<PyInt(1), PyInt(0)>>,
                 <<Str(""), Str("1")>>, <<Str("yes"), PyFloat(1, 0)>> })

InspectRecords ==
    { DictOf(<< [k |-> K_Uniform_Inspection, v |-> ip[2]],
                [k |-> K_Uniform_Exempt, v |-> ep[2]],
                [k |-> K_uniform_inspection, v |-> ip[1]],
                [k |-> K_uniform_exempt, v |-> ep[1]] >>)
      : ip \in InspectionPairs, ep \in ExemptPairs }

\* The instants the clock starts at: the last tick of 2025, and a day in the
\* middle of 2026 after midnight.
StartClocks ==
    { [day |-> Ymd2Ord(2025, 12, 31), tod |-> TicksPerDay - 1],
      [day |-> Ymd2Ord(2026, 6, 15), tod |-> 1] }

InspectInit ==
    /\ pc = "start"
    /\ data \in InspectRecords
    /\ given = data
    /\ result = <<>>
    /\ clock \in StartClocks
    /\ ticks = 0
    /\ extraction_date = None
    /\ courses_csv = NoCsv
    /\ training_csv = NoCsv
    /\ email_csv = NoCsv
    /\ units_csv = NoCsv
    /\ members_df = None
    /\ units_df = None
    /\ raised = NoException

\* result = check_uniform_inspection(data): data is updated in place and
\* returned.
CheckUniformInspection ==
    /\ pc = "start"
    /\ data' = check_uniform_inspection(data, clock)
    /\ given' = data
    /\ result' = data'
    /\ pc' = "inspected"
    /\ UNCHANGED <<clock, ticks, extraction_date, courses_csv, training_csv,
                   email_csv, units_csv, members_df, units_df, raised>>

InspectNext == Tick \/ CheckUniformInspection

SpecInspect == InspectInit /\ [][InspectNext]_vars

\* The values the record gives a field under its two keys.
FieldValues(d, normKey, origKey) ==
    {Item(d, k) : k \in {normKey, origKey} \cap Keys(d)}

\* The flag values that mean exempt: '1' or '1.0' once stringified and
\* trimmed.
ExemptFlag(v) ==
    v # None /\ Strip(PyStrOf(v)) \in {Chars("1"), Chars("1.0")}

\* The inspection date in a field value, if it is usable: not null, not
\* empty after trimming, not "nan", and a date in the form MM/DD/YYYY.
UsableDate(v) ==
    /\ v \notin {None, NaN}
    /\ Strip(PyStrOf(v)) # <<>>
    /\ Lower(Strip(PyStrOf(v))) # Chars("nan")
    /\ StrpTime(Strip(PyStrOf(v))).ok

DateIn(v) == StrpTime(Strip(PyStrOf(v))).dt

\* January 1 of the year of the instant now.
YearStart(now) == Ymd2Ord(YearOf(now.day), 1, 1)

Inspected == pc = "inspected"
OutExempt == Item(result, K_uniform_exempt)
OutNeeds == Item(result, K_needs_uniform_inspection)
OutInspection == Item(result, K_uniform_inspection)
GivenFlags == FieldValues(given, K_uniform_exempt, K_Uniform_Exempt)
GivenDates == FieldValues(given, K_uniform_inspection, K_Uniform_Inspection)

\* C4: with one value for the exemption flag (under either key or both),
\* the member is exempt, and needs no inspection, exactly when the flag
\* stringified and trimmed is '1' or '1.0'; with any other flag, or none,
\* the member is not exempt and a single inspection-date value alone decides:
\* an inspection is needed unless the date is usable and not before
\* January 1 of the current year.
C4_ExemptionFlag ==
    Inspected /\ Cardinality(GivenFlags) <= 1 =>
        IF \E v \in GivenFlags : ExemptFlag(v)
        THEN OutExempt = PyBool(TRUE) /\ OutNeeds = PyBool(FALSE)
        ELSE /\ OutExempt = PyBool(FALSE)
             /\ \A v \in GivenDates :
                   Cardinality(GivenDates) = 1 =>
                   OutNeeds = PyBool(~(UsableDate(v)
                                       /\ DateIn(v).day >= YearStart(clock)))
             /\ GivenDates = {} => OutNeeds = PyBool(TRUE)

\* C4 witness: the flag is the number 1.0, the inspection date is old, and
\* the member came out exempt.
C4_Witness ==
    /\ Inspected
    /\ GivenFlags = {PyFloat(1, 0)}
    /\ GivenDates = {Str("12/31/2024")}
    /\ OutExempt = PyBool(TRUE)
    /\ OutNeeds = PyBool(FALSE)

\* No value of the exemption flag in the record means exempt.
GivenNotExempt == \A v \in GivenFlags : ~ExemptFlag(v)

\* C5: for a member that is not exempt and has one inspection-date value that
\* parses as MM/DD/YYYY, an inspection is needed iff the date is before
\* January 1 of the current year, and the value is kept in
\* uniform_inspection.
C5_DateComparison ==
    Inspected /\ GivenNotExempt /\ Cardinality(GivenDates) = 1 =>
        \A v \in GivenDates :
            UsableDate(v) =>
                /\ OutNeeds = PyBool(DateIn(v).day < YearStart(clock))
                /\ OutInspection = v

\* C5 witness: the inspection is dated January 1 of the current year, the
\* clock having crossed into that year, and no inspection is needed.
C5_Witness ==
    /\ Inspected
    /\ GivenNotExempt
    /\ GivenDates = {Str("01/01/2026")}
    /\ clock = [day |-> Ymd2Ord(2026, 1, 1), tod |-> 0]
    /\ OutNeeds = PyBool(FALSE)
    /\ OutInspection = Str("01/01/2026")

\* C6: the call sets the three keys, the flags as booleans, and raises
\* nothing; for a member that is not exempt the output date is null or
\* usable, and it is null with an inspection needed when no value of the
\* field is usable.
C6_NoUnusableDate ==
    Inspected =>
        /\ raised = NoException
        /\ {K_uniform_inspection, K_uniform_exempt, K_needs_uniform_inspection}
               \subseteq Keys(result)
        /\ OutExempt \in {PyBool(TRUE), PyBool(FALSE)}
        /\ OutNeeds \in {PyBool(TRUE), PyBool(FALSE)}
        /\ GivenNotExempt =>
              /\ OutInspection = None \/ UsableDate(OutInspection)
              /\ (\A v \in GivenDates : ~UsableDate(v)) =>
                     OutInspection = None /\ OutNeeds = PyBool(TRUE)

\* C6 witness: a date that does not exist (February 30) was nulled for a
\* member that is not exempt.
C6_Witness ==
    /\ Inspected
    /\ GivenNotExempt
    /\ GivenDates = {Str("2/30/2026")}
    /\ OutInspection = None
    /\ OutNeeds = PyBool(TRUE)

\* C23 (as claimed): for an exempt member with one inspection-date value (or
\* none) the output uniform_inspection is that value (null for none),
\* whatever it is, and every key of the record other than the three the call
\* sets keeps its value.
C23_ExemptDatePassedThrough ==
    Inspected /\ OutExempt = PyBool(TRUE) /\ Cardinality(GivenDates) <= 1 =>
        /\ GivenDates = {} => OutInspection = None
        /\ \A v \in GivenDates : OutInspection = v
        /\ \A k \in Keys(given) \ {K_uniform_inspection, K_uniform_exempt,
                                   K_needs_uniform_inspection} :
              Item(result, k) = Item(given, k)

\* C24 (as claimed): when the record holds a field under both keys with
\* different values, the value under the normalized key alone decides: the
\* member is exempt exactly when that flag means exempt, and for a member
\* that is not exempt an inspection is needed unless that date is usable and
\* not before January 1 of the current year.
C24_NormalizedKeyWins ==
    Inspected =>
        /\ ( /\ {K_uniform_exempt, K_Uniform_Exempt} \subseteq Keys(given)
             /\ Item(given, K_uniform_exempt) # Item(given, K_Uniform_Exempt) )
           => OutExempt = PyBool(ExemptFlag(Item(given, K_uniform_exempt)))
        /\ ( /\ {K_uniform_inspection, K_Uniform_Inspection} \subseteq Keys(given)
             /\ Item(given, K_uniform_inspection) # Item(given, K_Uniform_Inspection)
             /\ OutExempt = PyBool(FALSE) )
           => LET v == Item(given, K_uniform_inspection)
              IN OutNeeds = PyBool(~(UsableDate(v) /\ DateIn(v).day >= YearStart(clock)))

-----------------------------------------------------------------------------
(* context.add_date_context *)

K_current_year == Chars("current_year")
K_current_year_start == Chars("current_year_start")
K_current_year_end == Chars("current_year_end")
K_extraction_date == Chars("extraction_date")
K_extraction_plus_365 == Chars("extraction_plus_365")

\* Whether the function falls back to datetime.now() for the reference date:
\* no extraction date, an empty one, or one strptime rejects.
uses_now_as_reference(ed) ==
    ~(Truthy(ed) /\ StrpTime(ed.s).ok)

\* reference_date (context.py lines 48-55 and 157-163); now1 is what
\* datetime.now() returns when the fallback calls it.
reference_date(ed, now1) ==
    IF Truthy(ed) /\ StrpTime(ed.s).ok THEN StrpTime(ed.s).dt ELSE now1

\* The value stored under 'extraction_date' (context.py line 64).
extraction_date_out(ed, ref) ==
    IF Truthy(ed) THEN ed ELSE PyStr(StrfTime(ref))

\* add_date_context(data, extraction_date): the dict after the call; now1 is
\* the instant of the fallback's call of datetime.now(), now the instant of
\* the call on line 58.
add_date_context(d, ed, now1, now) ==
    LET ref == reference_date(ed, now1)
        year == YearOf(now.day)
        d1 == Put(d, K_current_year, PyInt(year))
        d2 == Put(d1, K_current_year_start, PyStr(Chars("1/1/") \o NatStr(year)))
        d3 == Put(d2, K_current_year_end, PyStr(Chars("12/31/") \o NatStr(year)))
        d4 == Put(d3, K_extraction_date, extraction_date_out(ed, ref))
    IN Put(d4, K_extraction_plus_365, PyStr(StrfTime(PlusDays(ref, 365))))

\* The extraction_date arguments of the model.
ExtractionDates ==
    { None, Str(""), Str("12/31/2025"), Str("1/5/2026"), Str("06/15/2026"),
      Str("invalid-date"), Str("2/30/2026"), Str("12/31/25") }

DateInit ==
    /\ pc = "start"
    /\ data \in {<<>>, <<[k |-> Chars("first_name"), v |-> Str("JOHN")]>>,
                 <<[k |-> K_extraction_date, v |-> Str("1/1/2020")]>>}
    /\ given = data
    /\ result = <<>>
    /\ clock \in StartClocks
    /\ ticks = 0
    /\ extraction_date \in ExtractionDates
    /\ courses_csv = NoCsv
    /\ training_csv = NoCsv
    /\ email_csv = NoCsv
    /\ units_csv = NoCsv
    /\ members_df = None
    /\ units_df = None
    /\ raised = NoException

\* result = add_date_context(data, extraction_date): data is updated in
\* place and returned.  The clock may advance between the two calls of
\* datetime.now().
AddDateContext ==
    /\ pc = "start"
    /\ \E now \in (IF uses_now_as_reference(extraction_date)
                   THEN LaterNow(clock) ELSE {clock}) :
          /\ data' = add_date_context(data, extraction_date, clock, now)
          /\ clock' = now
    /\ given' = data
    /\ result' = data'
    /\ pc' = "dated"
    /\ UNCHANGED <<ticks, extraction_date, courses_csv, training_csv,
                   email_csv, units_csv, members_df, units_df, raised>>

DateNext == Tick \/ AddDateContext

SpecDate == DateInit /\ [][DateNext]_vars

\* The instant one tick before dt.
PrevTick(dt) ==
    IF dt.tod > 0 THEN [day |-> dt.day, tod |-> dt.tod - 1]
    ELSE [day |-> dt.day - 1, tod |-> TicksPerDay - 1]

\* A string in the form MM/DD/YYYY that names a date.
ValidDateArg(ed) == ed.t = "str" /\ StrpTime(ed.s).ok

\* C10 (as claimed): the call raises nothing; a valid extraction date is
\* echoed verbatim; with none, or one that does not parse, the output
\* extraction_date is today formatted MM/DD/YYYY; so the output always parses
\* and extraction_plus_365 is the date 365 days after it.
C10_ExtractionDateOut ==
    pc = "dated" =>
        LET out == Item(result, K_extraction_date)
            plus == Item(result, K_extraction_plus_365)
        IN /\ raised = NoException
           /\ ValidDateArg(extraction_date) => out = extraction_date
           /\ ~ValidDateArg(extraction_date) =>
                  out \in {PyStr(StrfTime(clock)), PyStr(StrfTime(PrevTick(clock)))}
           /\ ValidDateArg(out)
           /\ plus = PyStr(StrfTime(PlusDays(StrpTime(out.s).dt, 365)))

-----------------------------------------------------------------------------
(* context.process_course_warnings *)

K_courses_overdue == Chars("courses_overdue")
K_courses_due_soon == Chars("courses_due_soon")
K_has_overdue_courses == Chars("has_overdue_courses")
K_has_due_soon_courses == Chars("has_due_soon_courses")

PAWR_810015 == Chars("PAWR_810015")
SP_100643 == Chars("SP_100643")
CRA_502319 == Chars("CRA_502319")
SAPRR_502379 == Chars("SAPRR_502379")

\* The codes of the special case of context.py line 196.
special_codes == {SP_100643, CRA_502319, SAPRR_502379}

\* float(s) for a str: surrounding whitespace is dropped; a sign, digits and
\* an optional fraction give a number (its integral part is kept here, with
\* its sign); 'inf' and 'nan' in any case give those; anything else is
\* ValueError.
float_of_str(s) ==
    LET t == Strip(s)
        neg == t # <<>> /\ Head(t) = "-"
        u == IF t # <<>> /\ Head(t) \in {"-", "+"} THEN Tail(t) ELSE t
        dots == Places(u, ".")
        whole == IF dots = {} THEN u
                 ELSE SubSeq(u, 1, (CHOOSE i \in dots : TRUE) - 1)
        frac == IF dots = {} THEN <<>>
                ELSE SubSeq(u, (CHOOSE i \in dots : TRUE) + 1, Len(u))
    IN IF Lower(u) \in {Chars("inf"), Chars("infinity")}
       THEN [kind |-> "inf", n |-> 0]
       ELSE IF Lower(u) = Chars("nan") THEN [kind |-> "nan", n |-> 0]
       ELSE IF /\ Cardinality(dots) <= 1
               /\ AllDigits(whole) /\ AllDigits(frac)
               /\ whole \o frac # <<>>
       THEN [kind |-> "ok",
             n |-> IF neg THEN -DigitsVal(whole) ELSE DigitsVal(whole)]
       ELSE [kind |-> "ValueError", n |-> 0]

\* int(float(v)): [kind, n], kind "ok" with the integer n (the float
\* truncated toward zero), or the exception raised.
int_of_float(v) ==
    CASE v.t = "int" -> [kind |-> "ok", n |-> v.n]
      [] v.t = "float" -> [kind |-> "ok", n |-> v.w]
      [] v.t = "bool" -> [kind |-> "ok", n |-> IF v.b THEN 1 ELSE 0]
      [] v.t = "nan" -> [kind |-> "ValueError", n |-> 0]
      [] v.t = "inf" -> [kind |-> "OverflowError", n |-> 0]
      [] v.t = "str" ->
            LET f == float_of_str(v.s) IN
            IF f.kind = "inf" THEN [kind |-> "OverflowError", n |-> 0]
            ELSE IF f.kind = "nan" THEN [kind |-> "ValueError", n |-> 0]
            ELSE f
      [] OTHER -> [kind |-> "TypeError", n |-> 0]

\* pd.notna(v) on a scalar
notna(v) == v.t \notin {"none", "nan"}

Overdue(code, course, n) ==
    [code |-> code, title |-> course.Title, url |-> course.URL,
     enrollment_code |-> course.EnrollmentCode, days_overdue |-> n]

DueSoon(code, course, n, due) ==
    [code |-> code, title |-> course.Title, url |-> course.URL,
     enrollment_code |-> course.EnrollmentCode, days_until_due |-> n,
     due_date |-> StrfTime(due)]

\* A slip: the difference counted from the reference date, not from now.
days_from_reference(actual_due_date, ref, now) == DaysBetween(actual_due_date, ref)

\* days_from_today = (actual_due_date - now).days (context.py line 190)
days_from_today_of(actual_due_date, ref, now) == DaysBetween(actual_due_date, now)

\* A slip: the last day of the due-soon window is left out.
classify_below_365(code, course, days, ref, now) ==
    LET actual_due_date == PlusDays(ref, days)
        days_from_today == days_from_today_of(actual_due_date, ref, now)
        year_end == DateTime(YearOf(now.day), 12, 31)
    IN IF code \in special_codes /\ days = 0
       THEN [list |-> "due_soon",
             entry |-> DueSoon(code, course, DaysBetween(year_end, now), year_end)]
       ELSE IF days_from_today < 0
       THEN [list |-> "overdue",
             entry |-> Overdue(code, course, -days_from_today)]
       ELSE IF 0 <= days_from_today /\ days_from_today < 365
       THEN [list |-> "due_soon",
             entry |-> DueSoon(code, course, days_from_today, actual_due_date)]
       ELSE [list |-> "none", entry |-> <<>>]

\* The warning of one course with a day-offset of days (context.py lines
\* 187-225): [list, entry], list "none" for no warning.
classify(code, course, days, ref, now) ==
    LET actual_due_date == PlusDays(ref, days)
        days_from_today == days_from_today_of(actual_due_date, ref, now)
        year_end == DateTime(YearOf(now.day), 12, 31)
    IN IF code \in special_codes /\ days = 0
       THEN [list |-> "due_soon",
             entry |-> DueSoon(code, course, DaysBetween(year_end, now), year_end)]
       ELSE IF days_from_today < 0
       THEN [list |-> "overdue",
             entry |-> Overdue(code, course, -days_from_today)]
       ELSE IF 0 <= days_from_today /\ days_from_today <= 365
       THEN [list |-> "due_soon",
             entry |-> DueSoon(code, course, days_from_today, actual_due_date)]
       ELSE [list |-> "none", entry |-> <<>>]

\* reference_date + timedelta(days=days) (context.py line 187) raises
\* OverflowError when the date is not between 1/1/0001 and 12/31/9999.
date_overflows(ref, days) ==
    ref.day + days < 1 \/ ref.day + days > Ymd2Ord(9999, 12, 31)

\* The loop over the course table from row i on (context.py lines 173-228);
\* acc holds the two lists so far.  A ValueError or TypeError of the
\* conversion skips the course; any other exception leaves the loop (it is
\* caught on line 229), the lists keeping what they hold.
RECURSIVE course_loop(_, _, _, _, _, _)
course_loop(acc, rows, i, d, ref, now) ==
    IF i > Len(rows) THEN acc
    ELSE LET course == rows[i]
             code == Strip(PyStrOf(course.Code))
             days_until_due == Get(d, code)
             conv == int_of_float(days_until_due)
         IN IF ~notna(days_until_due) THEN course_loop(acc, rows, i + 1, d, ref, now)
            ELSE IF conv.kind \in {"ValueError", "TypeError"}
            THEN course_loop(acc, rows, i + 1, d, ref, now)
            ELSE IF conv.kind # "ok" \/ date_overflows(ref, conv.n) THEN acc
            ELSE LET w == classify(code, course, conv.n, ref, now)
                     acc2 == CASE w.list = "overdue" ->
                                    [acc EXCEPT !.overdue = Append(@, w.entry)]
                               [] w.list = "due_soon" ->
                                    [acc EXCEPT !.due_soon = Append(@, w.entry)]
                               [] OTHER -> acc
                 IN course_loop(acc2, rows, i + 1, d, ref, now)

\* The two lists of process_course_warnings (context.py lines 160-231):
\* empty without a course table that can be read.
course_lists(d, csv, ref, now) ==
    IF csv.exists /\ csv.readable
    THEN course_loop([overdue |-> <<>>, due_soon |-> <<>>], csv.rows, 1, d, ref, now)
    ELSE [overdue |-> <<>>, due_soon |-> <<>>]

\* context.py lines 233-237: the four keys are set from the lists.
course_keys(d, lists) ==
    Put(Put(Put(Put(d, K_courses_overdue, PyList(lists.overdue)),
                K_courses_due_soon, PyList(lists.due_soon)),
            K_has_overdue_courses, PyBool(Len(lists.overdue) > 0)),
        K_has_due_soon_courses, PyBool(Len(lists.due_soon) > 0))

\* A slip: has_due_soon_courses is computed from the overdue list.
process_course_warnings_one_flag(d, csv, ed, now1, now) ==
    LET lists == course_lists(d, csv, reference_date(ed, now1), now)
    IN Put(course_keys(d, lists), K_has_due_soon_courses,
           PyBool(Len(lists.overdue) > 0))

\* process_course_warnings(data, courses_csv, extraction_date): the dict
\* after the call; now1 is the instant of the fallback's datetime.now(), now
\* the instant of the call on line 165.
process_course_warnings(d, csv, ed, now1, now) ==
    course_keys(d, course_lists(d, csv, reference_date(ed, now1), now))

\* A row of the course table.
CourseRow(code, title) ==
    [Code |-> PyStr(code), Title |-> Str(title), URL |-> Str("https://x"),
     EnrollmentCode |-> Str("")]

Row_PAWR == CourseRow(PAWR_810015, "Privacy")
Row_SP == CourseRow(SP_100643, "Suicide Prevention")
Row_CRA == CourseRow(<<" ">> \o CRA_502319, "Civil Rights")

\* The course files of the model: none (no path, or no such file), one that
\* is no table, and two tables.
CourseFiles ==
    { NoCsv,
      [exists |-> TRUE, readable |-> FALSE, rows |-> <<>>],
      [exists |-> TRUE, readable |-> TRUE, rows |-> <<Row_PAWR, Row_SP>>],
      [exists |-> TRUE, readable |-> TRUE, rows |-> <<Row_SP, Row_CRA, Row_PAWR>>] }

\* The day-offsets a member record holds for an ordinary course ...
OffsetValues ==
    { Absent, NaN, PyInt(-1), PyInt(0), PyInt(1), PyInt(365), PyInt(366),
      PyInt(367), PyFloat(-400, 7), Str(" 7 "), Str("abc"), Inf }

\* ... and for a course of the special case.
SpecialOffsetValues ==
    { Absent, PyInt(0), PyFloat(0, 0), Str("0"), PyInt(1), PyInt(-1), Inf }

CourseRecords ==
    { DictOf(<< [k |-> PAWR_810015, v |-> a],
                [k |-> SP_100643, v |-> b],
                [k |-> CRA_502319, v |-> c] >>)
      : a \in OffsetValues, b \in SpecialOffsetValues, c \in {Absent, PyInt(0)} }

CourseExtractionDates ==
    { None, Str("12/31/2025"), Str("06/15/2026"), Str("invalid-date") }

CourseInit ==
    /\ pc = "start"
    /\ data \in CourseRecords
    /\ given = data
    /\ result = <<>>
    /\ clock \in StartClocks
    /\ ticks = 0
    /\ extraction_date \in CourseExtractionDates
    /\ courses_csv \in CourseFiles
    /\ training_csv = NoCsv
    /\ email_csv = NoCsv
    /\ units_csv = NoCsv
    /\ members_df = None
    /\ units_df = None
    /\ raised = NoException

\* result = process_course_warnings(data, courses_csv, extraction_date): data
\* is updated in place and returned.  The clock may advance between the two
\* calls of datetime.now().
ProcessCourseWarnings ==
    /\ pc = "start"
    /\ \E now \in (IF uses_now_as_reference(extraction_date)
                   THEN LaterNow(clock) ELSE {clock}) :
          /\ data' = process_course_warnings(data, courses_csv,
                                             extraction_date, clock, now)
          /\ clock' = now
    /\ given' = data
    /\ result' = data'
    /\ pc' = "warned"
    /\ UNCHANGED <<ticks, extraction_date, courses_csv, training_csv,
                   email_csv, units_csv, members_df, units_df, raised>>

CourseNext == Tick \/ ProcessCourseWarnings

SpecCourse == CourseInit /\ [][CourseNext]_vars

Warned == pc = "warned"
TableRead == courses_csv.exists /\ courses_csv.readable
RowCode(i) == Strip(PyStrOf(courses_csv.rows[i].Code))
\* The member's value for the course of row i, and the integer in it.
RowValue(i) == Get(given, RowCode(i))
HasIntOffset(i) == notna(RowValue(i)) /\ int_of_float(RowValue(i)).kind = "ok"
RowOffset(i) == int_of_float(RowValue(i)).n
\* No course of the table has an infinite day-offset in the record.
NoInfiniteOffset ==
    \A i \in 1..Len(courses_csv.rows) :
        notna(RowValue(i)) => int_of_float(RowValue(i)).kind # "OverflowError"

OutOverdue == Item(result, K_courses_overdue).l
OutDueSoon == Item(result, K_courses_due_soon).l
EntriesOf(list, code) == {j \in 1..Len(list) : list[j].code = code}

\* Today's date, and the dates the reference date may be: the extraction
\* date, or without a valid one the date of the call (either side of
\* midnight when the call ran across it).
Today == clock.day
RefDays ==
    IF ValidDateArg(extraction_date) THEN {StrpTime(extraction_date.s).dt.day}
    ELSE {clock.day, PrevTick(clock).day}

\* C2 (as claimed): a course with an integer day-offset d, the special case
\* aside, is classified by diff = (reference date + d) - today in calendar
\* days: Overdue with days_overdue = -diff iff diff < 0, DueSoon with
\* days_until_due = diff and the due date iff 0 <= diff <= 365, no warning
\* iff diff > 365.
C2_CalendarDayClassification ==
    Warned /\ TableRead /\ NoInfiniteOffset =>
        \A i \in 1..Len(courses_csv.rows) :
            HasIntOffset(i) /\ ~(RowCode(i) \in special_codes /\ RowOffset(i) = 0) =>
            \E ref \in RefDays :
                LET due == ref + RowOffset(i)
                    diff == due - Today
                    over == EntriesOf(OutOverdue, RowCode(i))
                    soon == EntriesOf(OutDueSoon, RowCode(i))
                IN /\ diff < 0 =>
                        /\ soon = {} /\ Cardinality(over) = 1
                        /\ \A j \in over : OutOverdue[j].days_overdue = -diff
                   /\ 0 <= diff /\ diff <= 365 =>
                        /\ over = {} /\ Cardinality(soon) = 1
                        /\ \A j \in soon :
                              /\ OutDueSoon[j].days_until_due = diff
                              /\ OutDueSoon[j].due_date = StrfTime([day |-> due, tod |-> 0])
                   /\ diff > 365 => over = {} /\ soon = {}

\* C3 (as claimed): a course of the three designated codes with a
\* day-offset of 0 gets exactly one DueSoon entry, due 12/31 of the current
\* year with days_until_due = December 31 - today, and no Overdue entry,
\* whatever the extraction date; a DueSoon entry of any other course, or of
\* these with another offset, carries the generic due date.
C3_SpecialCourseYearEnd ==
    Warned /\ TableRead /\ NoInfiniteOffset =>
        \A i \in 1..Len(courses_csv.rows) :
            HasIntOffset(i) =>
            LET over == EntriesOf(OutOverdue, RowCode(i))
                soon == EntriesOf(OutDueSoon, RowCode(i))
                dec31 == Ymd2Ord(YearOf(Today), 12, 31)
            IN IF RowCode(i) \in special_codes /\ RowOffset(i) = 0
               THEN /\ over = {} /\ Cardinality(soon) = 1
                    /\ \A j \in soon :
                          /\ OutDueSoon[j].due_date =
                                 Chars("12/31/") \o NatStr(YearOf(Today))
                          /\ OutDueSoon[j].days_until_due = dec31 - Today
               ELSE \A j \in soon :
                        \E ref \in RefDays :
                            OutDueSoon[j].due_date =
                                StrfTime([day |-> ref + RowOffset(i), tod |-> 0])

\* A day-offset that is there and cannot be turned into an integer.
BadOffset(v) == notna(v) /\ int_of_float(v).kind # "ok"

\* The record without the fields that hold such a day-offset.
WithoutBadOffsets(d) == SelectSeq(d, LAMBDA item : ~BadOffset(item.v))

\* The four keys process_course_warnings computes are in d what they are in e.
SameWarnings(d, e) ==
    \A k \in {K_courses_overdue, K_courses_due_soon, K_has_overdue_courses,
              K_has_due_soon_courses} : Get(d, k) = Get(e, k)

\* C27 (as claimed): every entry of courses_due_soon has 0 <=
\* days_until_due <= 365 and every entry of courses_overdue has
\* days_overdue >= 1, for every record, course table, extraction date and
\* current date and time.
C27_CountsInRange ==
    Warned =>
        /\ \A j \in 1..Len(OutDueSoon) :
              0 <= OutDueSoon[j].days_until_due /\ OutDueSoon[j].days_until_due <= 365
        /\ \A j \in 1..Len(OutOverdue) : OutOverdue[j].days_overdue >= 1

\* C16 (as claimed): a day-offset that cannot be turned into an integer
\* (text that is no number, an infinite number, a value of another type)
\* makes the call skip that course alone: the warnings are those of the same
\* record without the bad values, for the courses before and after it.
C16_BadOffsetSkipsOneCourse ==
    Warned =>
        \E now1 \in {clock, PrevTick(clock)} :
            SameWarnings(result,
                         process_course_warnings(WithoutBadOffsets(given), courses_csv,
                                                 extraction_date, now1, clock))

\* C17: without a course table (no path, no such file, or a file that is no
\* table) the call returns empty lists and both flags false, whatever
\* day-offsets the record holds; and in every outcome each flag is true
\* exactly when its list is not empty.
C17_NoTableNoWarnings ==
    Warned =>
        /\ raised = NoException
        /\ ~TableRead =>
              /\ Get(result, K_courses_overdue) = PyList(<<>>)
              /\ Get(result, K_courses_due_soon) = PyList(<<>>)
              /\ Get(result, K_has_overdue_courses) = PyBool(FALSE)
              /\ Get(result, K_has_due_soon_courses) = PyBool(FALSE)
        /\ Get(result, K_has_overdue_courses) = PyBool(OutOverdue # <<>>)
        /\ Get(result, K_has_due_soon_courses) = PyBool(OutDueSoon # <<>>)

\* A file that is no table, for a member with an overdue course in the record.
C17_Witness ==
    /\ Warned
    /\ courses_csv.exists /\ ~courses_csv.readable
    /\ Get(given, PAWR_810015) = PyInt(-1)
    /\ Get(result, K_has_overdue_courses) = PyBool(FALSE)

-----------------------------------------------------------------------------
(* process_course_warnings around the extraction date 10/01/2025 *)

Row_PAWR_again == CourseRow(PAWR_810015, "Privacy (2025)")
Row_CRA_again == CourseRow(CRA_502319, "Civil Rights (2025)")

\* Course tables: one course; the same course on two rows; and a table whose
\* first and last rows name the same course, once with a blank before the
\* code.
WarningFiles ==
    { [exists |-> TRUE, readable |-> TRUE, rows |-> <<Row_PAWR>>],
      [exists |-> TRUE, readable |-> TRUE, rows |-> <<Row_PAWR, Row_PAWR_again>>],
      [exists |-> TRUE, readable |-> TRUE,
       rows |-> <<Row_CRA, Row_PAWR, Row_CRA_again>>] }

WarningRecords ==
    { DictOf(<< [k |-> PAWR_810015, v |-> a], [k |-> CRA_502319, v |-> c] >>)
      : a \in { Absent, PyInt(-10), PyInt(-1), PyInt(0), PyInt(100), PyInt(400) },
        c \in { Absent, PyInt(0), PyInt(30), Inf } }

WarningExtractionDates == { None, Str("10/01/2025") }

\* Runs before the extraction date, on it, ten days after it, at the end of
\* 11/03/2025 (the due date of an offset of 400 is then 367 days ahead), and
\* after that due date.
WarningClocks ==
    { [day |-> Ymd2Ord(2025, 9, 1), tod |-> 0],
      [day |-> Ymd2Ord(2025, 10, 1), tod |-> 0],
      [day |-> Ymd2Ord(2025, 10, 11), tod |-> 0],
      [day |-> Ymd2Ord(2025, 11, 3), tod |-> TicksPerDay - 1],
      [day |-> Ymd2Ord(2026, 11, 6), tod |-> 0] }

WarningsInit ==
    /\ pc = "start"
    /\ data \in WarningRecords
    /\ given = data
    /\ result = <<>>
    /\ clock \in WarningClocks
    /\ ticks = 0
    /\ extraction_date \in WarningExtractionDates
    /\ courses_csv \in WarningFiles
    /\ training_csv = NoCsv
    /\ email_csv = NoCsv
    /\ units_csv = NoCsv
    /\ members_df = None
    /\ units_df = None
    /\ raised = NoException

SpecWarnings == WarningsInit /\ [][CourseNext]_vars

\* The rows of the table a warning entry can come from.
RowsOf(entry) ==
    { i \in 1..Len(courses_csv.rows) :
        RowCode(i) = entry.code /\ courses_csv.rows[i].Title = entry.title }

\* The entries of a list follow the order of the table's rows.
InTableOrder(list) ==
    \A j, k \in 1..Len(list) :
        j < k => \E a \in RowsOf(list[j]), b \in RowsOf(list[k]) : a < b

\* C18 (as claimed): for every course table, one that names a code on two
\* rows included, no code has more than one entry in courses_overdue and
\* courses_due_soon taken together, and the entries of each list are in the
\* order of the table.
C18_OneWarningPerCode ==
    Warned /\ TableRead =>
        /\ \A i \in 1..Len(courses_csv.rows) :
              Cardinality(EntriesOf(OutOverdue, RowCode(i)))
                + Cardinality(EntriesOf(OutDueSoon, RowCode(i))) <= 1
        /\ InTableOrder(OutOverdue)
        /\ InTableOrder(OutDueSoon)

\* The extraction date as a day number, when it is a valid date.
ExtractionDay == StrpTime(extraction_date.s).dt.day

\* The loop reaches row i: no earlier row's day-offset ends it.
Reached(i) ==
    \A j \in 1..(i - 1) :
        notna(RowValue(j)) =>
            /\ int_of_float(RowValue(j)).kind # "OverflowError"
            /\ HasIntOffset(j) =>
                  ~date_overflows(StrpTime(extraction_date.s).dt, RowOffset(j))

\* Whole days from the clock to midnight of day due, as timedelta.days counts
\* them: a started day is not counted.
WholeDaysTo(due) == due - Today - (IF clock.tod > 0 THEN 1 ELSE 0)

\* The record holds a value for no other course of the table.
OnlyCourse(i) ==
    \A j \in 1..Len(courses_csv.rows) : RowCode(j) # RowCode(i) => ~notna(RowValue(j))

OverdueScenario(i) ==
    /\ RowCode(i) = PAWR_810015
    /\ RowValue(i) = PyInt(-10)
    /\ extraction_date = Str("10/01/2025")
    /\ Today = Ymd2Ord(2025, 10, 11)

-----------------------------------------------------------------------------
(* database.MemberDatabase: strings *)

\* str.upper(), one character, and str.upper()
UpperChar(c) ==
    IF c \in LowerSet THEN UpperAscii[CHOOSE i \in 1..26 : LowerAscii[i] = c]
    ELSE IF c = LowerOther[1] THEN UpperOther[1]
    ELSE c
Upper(s) == [i \in 1..Len(s) |-> UpperChar(s[i])]

\* A cased character: a letter.
IsCased(c) ==
    c \in UpperSet \/ c \in LowerSet \/ c = UpperOther[1] \/ c = LowerOther[1]

\* str.title(): a letter after a letter is lowered, any other letter raised.
Title(s) ==
    [i \in 1..Len(s) |->
        IF i > 1 /\ IsCased(s[i - 1]) THEN LowerChar(s[i]) ELSE UpperChar(s[i])]

\* s.endswith(t)
EndsWith(s, t) ==
    Len(t) <= Len(s) /\ SubSeq(s, Len(s) - Len(t) + 1, Len(s)) = t

\* t in s
Contains(s, t) ==
    \E i \in 1..(Len(s) - Len(t) + 1) : SubSeq(s, i, i + Len(t) - 1) = t

\* s.split(): the runs of characters that are not whitespace
RECURSIVE Split(_)
Split(s) ==
    LET t == LStrip(s) IN
    IF t = <<>> THEN <<>>
    ELSE LET ends == {i \in 1..Len(t) : t[i] \in Whitespace}
             n == IF ends = {} THEN Len(t)
                  ELSE (CHOOSE i \in ends : \A j \in ends : i <= j) - 1
         IN <<SubSeq(t, 1, n)>> \o Split(SubSeq(t, n + 1, Len(t)))

\* s.rstrip('.')
RECURSIVE RStripDots(_)
RStripDots(s) ==
    IF s # <<>> /\ s[Len(s)] = "." THEN RStripDots(SubSeq(s, 1, Len(s) - 1))
    ELSE s

\* pd.isna(v) on a scalar
isna(v) == v.t \in {"none", "nan", "NA"}

\* pd.NA
NA == [t |-> "NA"]

\* The length of the run of characters of the set cs in s from place i.
RECURSIVE RunLen(_, _, _)
RunLen(s, i, cs) ==
    IF i <= Len(s) /\ s[i] \in cs THEN 1 + RunLen(s, i + 1, cs) ELSE 0

\* _extract_unit_number: the digits of the first match of Unit:\s*(\d+),
\* whatever the case of "Unit"; None without a match or for a non-string.
\* (\s also matches whitespace the alphabet of the model does not have.)
extract_unit_number(unit_field) ==
    IF isna(unit_field) \/ unit_field.t # "str" THEN None
    ELSE LET s == unit_field.s
             DigitsAt(i) == i + 5 + RunLen(s, i + 5, Whitespace)
             hits == {i \in 1..(Len(s) - 4) :
                        /\ Lower(SubSeq(s, i, i + 4)) = Chars("unit:")
                        /\ RunLen(s, DigitsAt(i), DecimalSet) > 0}
         IN IF hits = {} THEN None
            ELSE LET i == CHOOSE h \in hits : \A g \in hits : h <= g
                 IN PyStr(SubSeq(s, DigitsAt(i),
                                 DigitsAt(i) + RunLen(s, DigitsAt(i), DecimalSet) - 1))

flotilla_abbrevs ==
    <<Chars(" Flotilla"), Chars(" Flot"), Chars(" Flot."), Chars(" Flt"),
      Chars(" Flt.")>>

\* A slip: ' Flotilla' is appended without looking at what the name ends with.
prettify_unit_name_always_appends(raw_name) ==
    IF isna(raw_name) \/ raw_name.t # "str" THEN None
    ELSE LET pretty == Title(Strip(raw_name.s))
             hits == {i \in 1..Len(flotilla_abbrevs) :
                        EndsWith(pretty, flotilla_abbrevs[i])}
         IN PyStr((IF hits = {} THEN pretty
                   ELSE Strip(SubSeq(pretty, 1,
                          Len(pretty) - Len(flotilla_abbrevs[
                              CHOOSE i \in hits : \A j \in hits : i <= j]))))
                  \o Chars(" Flotilla"))

\* _prettify_unit_name
prettify_unit_name(raw_name) ==
    IF isna(raw_name) \/ raw_name.t # "str" THEN None
    ELSE LET pretty == Title(Strip(raw_name.s))
             hits == {i \in 1..Len(flotilla_abbrevs) :
                        EndsWith(pretty, flotilla_abbrevs[i])}
             cut == IF hits = {} THEN pretty
                    ELSE LET a == flotilla_abbrevs[
                                    CHOOSE i \in hits : \A j \in hits : i <= j]
                         IN Strip(SubSeq(pretty, 1, Len(pretty) - Len(a)))
         IN PyStr(IF EndsWith(cut, Chars("Flotilla")) THEN cut
                  ELSE cut \o Chars(" Flotilla"))

\* _prettify_unit_number
prettify_unit_number(unit_number) ==
    IF isna(unit_number) \/ unit_number.t # "str" THEN None
    ELSE LET u == Strip(unit_number.s) IN
         IF Len(u) # 7 \/ ~isdigit(u) THEN None
         ELSE PyStr(SubSeq(u, 1, 3) \o <<"-">> \o SubSeq(u, 4, 5) \o <<"-">>
                    \o SubSeq(u, 6, 7))

\* _prettify_fso_name
prettify_fso_name(name) ==
    IF isna(name) \/ name.t # "str" THEN None ELSE PyStr(Title(Strip(name.s)))

name_suffixes ==
    {Chars("JR"), Chars("JR."), Chars("SR"), Chars("SR."), Chars("II"),
     Chars("III"), Chars("IV"), Chars("V")}

\* The tokens of a name, one trailing suffix removed (database.py lines
\* 127-136 and 164-173).
name_parts_of(s) ==
    LET parts == Split(s) IN
    IF Len(parts) >= 2 /\ RStripDots(Upper(parts[Len(parts)])) \in name_suffixes
    THEN SubSeq(parts, 1, Len(parts) - 1) ELSE parts

\* _create_fso_display_name
create_fso_display_name(name) ==
    IF isna(name) \/ name.t # "str" THEN None
    ELSE IF Len(Split(name.s)) < 2 THEN None
    ELSE LET parts == name_parts_of(name.s) IN
         IF Len(parts) < 2 THEN None
         ELSE PyStr(Title(parts[1]) \o <<" ">> \o Title(parts[Len(parts)]))

-----------------------------------------------------------------------------
(* database.MemberDatabase: tables.  A DataFrame is [columns, rows]: the    *)
(* column names in order and, per row, the values in column order.  A CSV   *)
(* file is [exists, readable, rows] or, for a table, [exists, readable,     *)
(* df]; a file that is no table has a defect, the exception pd.read_csv     *)
(* raises on it.                                                            *)

HasCol(df, name) == \E c \in 1..Len(df.columns) : df.columns[c] = name
ColIndex(df, name) == CHOOSE c \in 1..Len(df.columns) : df.columns[c] = name
Cell(df, r, name) == df.rows[r][ColIndex(df, name)]

\* df[name] = vals: a column of the frame is replaced, a new one goes last.
SetCol(df, name, vals) ==
    IF HasCol(df, name)
    THEN [df EXCEPT !.rows =
            [r \in 1..Len(df.rows) |->
                [df.rows[r] EXCEPT ![ColIndex(df, name)] = vals[r]]]]
    ELSE [columns |-> Append(df.columns, name),
          rows |-> [r \in 1..Len(df.rows) |-> Append(df.rows[r], vals[r])]]

\* df[name].apply(F)
Apply(df, name, F(_)) == [r \in 1..Len(df.rows) |-> F(Cell(df, r, name))]

\* df[cols]: the columns named, in that order
Project(df, cols) ==
    [columns |-> cols,
     rows |-> [r \in 1..Len(df.rows) |->
                 [c \in 1..Len(cols) |-> Cell(df, r, cols[c])]]]

\* Two join keys match: equal values, or both null (pandas matches null keys
\* with each other).
KeyMatch(a, b) == IF isna(a) \/ isna(b) THEN isna(a) /\ isna(b) ELSE a = b

\* The rows of the left join for the left rows from l on.
RECURSIVE JoinRows(_, _, _, _, _, _)
JoinRows(left, right, lk, rk, keep, l) ==
    IF l > Len(left.rows) THEN <<>>
    ELSE LET hits == {r \in 1..Len(right.rows) :
                        KeyMatch(Cell(left, l, lk), Cell(right, r, rk))}
             Tail_(r) == [c \in 1..Len(keep) |-> right.rows[r][keep[c]]]
             RECURSIVE From(_)
             From(r) ==
                IF r > Len(right.rows) THEN <<>>
                ELSE (IF r \in hits THEN <<left.rows[l] \o Tail_(r)>> ELSE <<>>)
                     \o From(r + 1)
             mine == IF hits = {}
                     THEN <<left.rows[l] \o [c \in 1..Len(keep) |-> NaN]>>
                     ELSE From(1)
         IN mine \o JoinRows(left, right, lk, rk, keep, l + 1)

\* The places of the sequence s that satisfy Keep, in order.
RECURSIVE Filter(_, _, _)
Filter(s, Keep(_), i) ==
    IF i > Len(s) THEN <<>>
    ELSE (IF Keep(i) THEN <<i>> ELSE <<>>) \o Filter(s, Keep, i + 1)

\* left.merge(right, left_on=lk, right_on=rk, how='left'): every left row in
\* order, once per matching right row (in the right table's order) or once
\* with nulls; with lk = rk (on=) the key column appears once; any other
\* column name both tables have gets the suffix _x (left) and _y (right).
Merge(left, right, lk, rk) ==
    LET keep == Filter(right.columns,
                       LAMBDA c : ~(lk = rk /\ right.columns[c] = rk), 1)
        Shared(n) == /\ \E c \in 1..Len(left.columns) : left.columns[c] = n
                     /\ \E c \in 1..Len(keep) : right.columns[keep[c]] = n
                     /\ ~(lk = rk /\ n = lk)
        lcols == [c \in 1..Len(left.columns) |->
                    IF Shared(left.columns[c]) THEN left.columns[c] \o Chars("_x")
                    ELSE left.columns[c]]
        rcols == [c \in 1..Len(keep) |->
                    IF Shared(right.columns[keep[c]])
                    THEN right.columns[keep[c]] \o Chars("_y")
                    ELSE right.columns[keep[c]]]
    IN [columns |-> lcols \o rcols,
        rows |-> JoinRows(left, right, lk, rk, keep, 1)]

\* df.to_dict('records')
ToRecords(df) ==
    [r \in 1..Len(df.rows) |->
        [c \in 1..Len(df.columns) |-> [k |-> df.columns[c], v |-> df.rows[r][c]]]]

C_Member_num == Chars("Member #")
C_Member_ID == Chars("Member ID")
C_unit_field == Chars("Unit/Member/Competency/Status")
C_Unit_Number == Chars("Unit Number")
C_Unit_Number_Pretty == Chars("Unit Number Pretty")
C_Unit_Name == Chars("Unit Name")
C_Unit_Name_Pretty == Chars("Unit Name Pretty")
C_First_Name == Chars("First Name")
C_Last_Name == Chars("Last Name")
C_Email == Chars("Email")
C_FSO_IS == Chars("FSO-IS")
C_FSO_MT == Chars("FSO-MT")

\* A slip: the text is not trimmed.
str_strip_none(v) == PyStr(PyStrOf(v))

\* x.astype(str).str.strip(), one value
str_strip(v) == PyStr(Strip(PyStrOf(v)))

\* The first column whose name contains 'Unit/Member/Competency/Status'
\* (database.py lines 219-223), 0 when there is none.
unit_field_col(df) ==
    LET hits == {c \in 1..Len(df.columns) : Contains(df.columns[c], C_unit_field)}
    IN IF hits = {} THEN 0 ELSE CHOOSE c \in hits : \A d \in hits : c <= d

\* The email of the matching row (database.py lines 190-194).
email_or_none(email) == IF ~isna(email) THEN str_strip(email) ELSE None

\* _lookup_fso_email, from the name's tokens on (database.py lines 175-196):
\* the email of the first row whose Last Name and First Name are the last
\* and the first token, whatever the case.
lookup_parts_email(parts, email_df) ==
    IF Len(parts) < 2 THEN None
    ELSE LET Same(v, name) == v.t = "str" /\ Upper(v.s) = Upper(name)
             hits == {r \in 1..Len(email_df.rows) :
                        /\ Same(Cell(email_df, r, C_Last_Name), parts[Len(parts)])
                        /\ Same(Cell(email_df, r, C_First_Name), parts[1])}
         IN IF hits = {} THEN None
            ELSE email_or_none(Cell(email_df,
                                    CHOOSE r \in hits : \A q \in hits : r <= q,
                                    C_Email))

\* _lookup_fso_email
lookup_fso_email(fso_name, email_df) ==
    IF isna(fso_name) \/ fso_name.t # "str" THEN None
    ELSE IF Len(Split(fso_name.s)) < 2 THEN None
    ELSE lookup_parts_email(name_parts_of(fso_name.s), email_df)

\* database.py lines 214-215
strip_member_num(df) ==
    IF HasCol(df, C_Member_num)
    THEN SetCol(df, C_Member_num, Apply(df, C_Member_num, str_strip))
    ELSE df

\* database.py lines 225-226, uc the place of the free-text column
add_unit_number_at(df, uc) ==
    IF uc # 0
    THEN SetCol(df, C_Unit_Number, Apply(df, df.columns[uc], extract_unit_number))
    ELSE df

\* database.py lines 219-226
add_unit_number(df) == add_unit_number_at(df, unit_field_col(df))

\* database.py lines 229-230
add_unit_number_pretty(df) ==
    IF HasCol(df, C_Unit_Number)
    THEN SetCol(df, C_Unit_Number_Pretty,
                Apply(df, C_Unit_Number, prettify_unit_number))
    ELSE df

\* The training table after database.py lines 213-230.
prepare_training(df0) ==
    add_unit_number_pretty(add_unit_number(strip_member_num(df0)))

\* The email table after database.py lines 235-238.
prepare_email(df0) ==
    IF HasCol(df0, C_Member_ID)
    THEN SetCol(df0, C_Member_ID, Apply(df0, C_Member_ID, str_strip))
    ELSE df0

\* The three columns of one supervisory role, each added to the frame
\* (database.py lines 257-262 and 264-269).
add_fso_pretty(df, col) ==
    SetCol(df, col \o Chars(" Pretty"), Apply(df, col, prettify_fso_name))
add_fso_display(df, col) ==
    SetCol(df, col \o Chars(" Display"), Apply(df, col, create_fso_display_name))
add_fso_email(df, col, email_df) ==
    IF email_df # None
    THEN SetCol(df, col \o Chars(" Email"),
                Apply(df, col, LAMBDA name : lookup_fso_email(name, email_df)))
    ELSE df

\* The columns of one supervisory role (database.py lines 256-269);
\* email_df is None without an email table.
with_fso(df, col, email_df) ==
    IF ~HasCol(df, col) THEN df
    ELSE add_fso_email(add_fso_display(add_fso_pretty(df, col), col), col, email_df)

\* One Unit Number of the unit table (database.py lines 248-249).
clean_unit_number(v) ==
    IF v.t # "str" THEN v
    ELSE IF Strip(v.s) = Chars("nan") THEN NA
    ELSE PyStr(Strip(v.s))

\* database.py lines 247-249
clean_unit_numbers(df) ==
    IF HasCol(df, C_Unit_Number)
    THEN SetCol(df, C_Unit_Number, Apply(df, C_Unit_Number, clean_unit_number))
    ELSE df

\* database.py lines 252-253
add_unit_name_pretty(df) ==
    IF HasCol(df, C_Unit_Name)
    THEN SetCol(df, C_Unit_Name_Pretty, Apply(df, C_Unit_Name, prettify_unit_name))
    ELSE df

\* The unit table after database.py lines 243-269.  The Unit Number column
\* is read as text, a missing one being NaN.
prepare_units(df0, email_df) ==
    with_fso(with_fso(add_unit_name_pretty(clean_unit_numbers(df0)),
                      C_FSO_IS, email_df),
             C_FSO_MT, email_df)

\* cols_to_merge (database.py lines 274-288)
cols_to_merge(units) ==
    LET Role(col) ==
            IF ~HasCol(units, col) THEN <<>>
            ELSE <<col, col \o Chars(" Pretty")>>
                 \o (IF HasCol(units, col \o Chars(" Display"))
                     THEN <<col \o Chars(" Display")>> ELSE <<>>)
                 \o (IF HasCol(units, col \o Chars(" Email"))
                     THEN <<col \o Chars(" Email")>> ELSE <<>>)
    IN <<C_Unit_Number, C_Unit_Name, C_Unit_Name_Pretty>>
       \o Role(C_FSO_IS) \o Role(C_FSO_MT)

\* The exception a failing load() lets escape.
training_not_found ==
    [type |-> "FileNotFoundError", message |-> "Training database not found"]
read_csv_error(file) == [type |-> file.defect, message |-> "pandas"]

\* database.py lines 272-294: the unit columns joined to the training table.
merge_units(training_df, units) ==
    IF units # None /\ HasCol(training_df, C_Unit_Number)
    THEN Merge(training_df, Project(units, cols_to_merge(units)),
               C_Unit_Number, C_Unit_Number)
    ELSE training_df

\* database.py lines 297-312: the email columns joined to the training table.
merge_email(training_df, email_df) ==
    IF email_df # None
    THEN Merge(training_df, email_df, C_Member_num, C_Member_ID)
    ELSE training_df

\* load() from the tables read on: units is None when no unit file is read,
\* and self.units_df then stays what it was.
load_tables(training_df, email_df, units, old_units_df) ==
    [raised |-> NoException,
     members_df |-> merge_email(merge_units(training_df, units), email_df),
     units_df |-> IF units # None THEN units ELSE old_units_df]

\* load() once every file it reads is a table.
load_readable(training, email_df, units, old_units_df) ==
    load_tables(prepare_training(training.df), email_df,
                IF units.exists THEN prepare_units(units.df, email_df) ELSE None,
                old_units_df)

\* A load() that fails: nothing is assigned.
load_fails(e, old_units_df) ==
    [raised |-> e, members_df |-> None, units_df |-> old_units_df]

\* load(): [raised, members_df, units_df].  A missing training file raises
\* on line 208; a file pd.read_csv cannot parse raises what pandas raises,
\* on lines 211, 235 and 243.  The tables of the model have the columns the
\* joins name.
load(training, email, units, old_units_df) ==
    IF ~training.exists THEN load_fails(training_not_found, old_units_df)
    ELSE IF ~training.readable
    THEN load_fails(read_csv_error(training), old_units_df)
    ELSE IF email.exists /\ ~email.readable
    THEN load_fails(read_csv_error(email), old_units_df)
    ELSE IF units.exists /\ ~units.readable
    THEN load_fails(read_csv_error(units), old_units_df)
    ELSE load_readable(training,
                       IF email.exists THEN prepare_email(email.df) ELSE None,
                       units, old_units_df)

\* A CSV file that is a table, and one pd.read_csv fails on.
Table(df) == [exists |-> TRUE, readable |-> TRUE, defect |-> "none", df |-> df]
BadFile(defect) ==
    [exists |-> TRUE, readable |-> FALSE, defect |-> defect,
     df |-> [columns |-> <<>>, rows |-> <<>>]]

C_unit_field_arrow == C_unit_field \o <<" ", "U+2191">>

\* The training tables of the model: with the free-text column (its header
\* ending in an arrow), and without it.
Training_Units ==
    [columns |-> <<C_Member_num, C_First_Name, C_unit_field_arrow>>,
     rows |-> << <<Str(" 101 "), Str("JOHN"), Str("Unit: 0131102 | DOE. JOHN")>>,
                 <<PyInt(102), Str("JANE"), Str("unit:0140203|SMITH")>>,
                 <<PyInt(103), Str("BOB"), NaN>>,
                 <<PyInt(104), Str("ANN"), Str("Unit: 013110 | LEE")>> >>]

Training_Plain ==
    [columns |-> <<C_Member_num, C_First_Name>>,
     rows |-> << <<PyInt(101), Str("JOHN")>>, <<PyInt(102), Str("JANE")>> >>]

TrainingFiles ==
    { NoCsv, BadFile("UnicodeDecodeError"), BadFile("ParserError"),
      BadFile("EmptyDataError"), Table(Training_Units), Table(Training_Plain) }

Email_Plain ==
    [columns |-> <<C_Member_ID, C_Email, C_First_Name, C_Last_Name>>,
     rows |-> << <<PyInt(101), Str("john@x.org "), Str("John"), Str("Doe")>>,
                 <<Str("102 "), Str("jane@x.org"), Str("JANE"), Str("SMITH")>> >>]

Email_Twice ==
    [columns |-> <<C_Member_ID, C_Email, C_First_Name, C_Last_Name>>,
     rows |-> << <<PyInt(101), NaN, Str("JOHN"), Str("DOE")>>,
                 <<PyInt(101), Str("jd@x.org"), Str("JOHN"), Str("DOE")>> >>]

EmailFiles ==
    { NoCsv, BadFile("ParserError"), Table(Email_Plain), Table(Email_Twice) }

Units_Plain ==
    [columns |-> <<C_Unit_Number, C_Unit_Name, C_FSO_IS>>,
     rows |-> << <<Str("0131102"), Str("WOODS HOLE FLOTILLA"), Str("JOHN Q DOE JR.")>>,
                 <<Str(" 0140203"), Str("CASCO BAY FLOT"), Str("JANE SMITH")>> >>]

Units_Gaps ==
    [columns |-> <<C_Unit_Number, C_Unit_Name, C_FSO_IS, C_FSO_MT>>,
     rows |-> << <<Str(" nan"), Str("BANGOR FLT."), NaN, Str("CHER")>>,
                 <<Str("0131102"), Str("WOODS HOLE"), Str("JOHN DOE"), NaN>>,
                 <<Str("0131102"), NaN, Str("JANE SMITH III"), Str("JOHN DOE")>> >>]

UnitFiles ==
    { NoCsv, BadFile("ParserError"), Table(Units_Plain), Table(Units_Gaps) }

\* The keyword arguments of filter_members.
FilterCriteria ==
    { <<>>,
      <<[k |-> C_Member_num, v |-> Str("102")]>>,
      <<[k |-> C_First_Name, v |-> Str("JANE")], [k |-> Chars("Status"), v |-> Str("x")]>> }

LoadInit ==
    /\ pc = "start"
    /\ data = <<>>
    /\ given = <<>>
    /\ result = <<>>
    /\ clock = NoClock
    /\ ticks = 0
    /\ extraction_date = None
    /\ courses_csv = NoCsv
    /\ training_csv \in TrainingFiles
    /\ email_csv \in EmailFiles
    /\ units_csv \in UnitFiles
    /\ members_df = None
    /\ units_df = None
    /\ raised = NoException

\* The state a load() with the outcome r leaves.
LoadOutcome(r, after) ==
    /\ raised' = r.raised
    /\ units_df' = r.units_df
    /\ members_df' = IF r.raised = NoException THEN r.members_df ELSE members_df
    /\ pc' = after

LoadEffect(after) ==
    LoadOutcome(load(training_csv, email_csv, units_csv, units_df), after)

\* db.load()
Load ==
    /\ LoadEffect("load")
    /\ result' = IF raised' = NoException THEN members_df' ELSE <<>>
    /\ UNCHANGED <<clock, ticks, data, given, extraction_date, courses_csv,
                   training_csv, email_csv, units_csv>>

\* db.get_all_members(): loads when nothing is loaded yet.
GetAllMembers ==
    /\ IF members_df = None THEN LoadEffect("get_all_members")
       ELSE /\ pc' = "get_all_members"
            /\ raised' = NoException
            /\ UNCHANGED <<members_df, units_df>>
    /\ result' = IF raised' = NoException THEN ToRecords(members_df') ELSE <<>>
    /\ UNCHANGED <<clock, ticks, data, given, extraction_date, courses_csv,
                   training_csv, email_csv, units_csv>>

\* The rows of df that hold the value of every criterion naming a column.
RECURSIVE filter_rows(_, _, _)
filter_rows(df, criteria, i) ==
    IF i > Len(criteria) THEN df
    ELSE IF ~HasCol(df, criteria[i].k) THEN filter_rows(df, criteria, i + 1)
    ELSE LET keep == Filter(df.rows,
                            LAMBDA r : Cell(df, r, criteria[i].k) = criteria[i].v, 1)
         IN filter_rows([df EXCEPT !.rows = [j \in 1..Len(keep) |-> df.rows[keep[j]]]],
                        criteria, i + 1)

\* db.filter_members(**criteria)
FilterMembers ==
    \E criteria \in FilterCriteria :
        /\ IF members_df = None THEN LoadEffect("filter_members")
           ELSE /\ pc' = "filter_members"
                /\ raised' = NoException
                /\ UNCHANGED <<members_df, units_df>>
        /\ data' = criteria
        /\ result' = IF raised' = NoException
                     THEN ToRecords(filter_rows(members_df', criteria, 1))
                     ELSE <<>>
        /\ UNCHANGED <<clock, ticks, given, extraction_date, courses_csv,
                       training_csv, email_csv, units_csv>>

LoadNext == Load \/ GetAllMembers \/ FilterMembers

SpecLoad == LoadInit /\ [][LoadNext]_vars

\* load() has returned a table.
Loaded == pc # "start" /\ raised = NoException /\ members_df # None

\* C13 (as claimed): load() returns one record per row of the training table,
\* in the training table's order, whatever the email and unit tables hold:
\* the joins add, drop and duplicate no member.
C13_OneRecordPerTrainingRow ==
    Loaded =>
        /\ Len(members_df.rows) = Len(training_csv.df.rows)
        /\ \A r \in 1..Len(members_df.rows) :
              r <= Len(training_csv.df.rows) =>
                  Cell(members_df, r, C_Member_num)
                      = str_strip(Cell(training_csv.df, r, C_Member_num))

\* A column that comes from the unit table: Unit Name, Unit Name Pretty and
\* the columns of the two roles.
UnitSourced(name) ==
    \E p \in {C_Unit_Name, C_FSO_IS, C_FSO_MT} :
        Len(name) >= Len(p) /\ SubSeq(name, 1, Len(p)) = p

\* The unit reference of row r of the loaded table resolves: it is a unit
\* number, and a row of the unit table has it.
Resolved(r) ==
    LET key == Cell(members_df, r, C_Unit_Number) IN
    /\ key.t = "str"
    /\ \E u \in 1..Len(units_df.rows) : Cell(units_df, u, C_Unit_Number) = key

\* C14 (as claimed): after load() with a unit table, a training row whose
\* unit reference is unresolved (no unit row has the number, or the free text
\* gives no number) has null in every column that comes from the unit table;
\* unit rows without a unit number are joined to no member.
C14_UnresolvedUnitIsNull ==
    Loaded /\ units_csv.exists /\ HasCol(members_df, C_Unit_Number) =>
        \A r \in 1..Len(members_df.rows) :
            ~Resolved(r) =>
                \A c \in 1..Len(members_df.columns) :
                    UnitSourced(members_df.columns[c]) => isna(members_df.rows[r][c])

\* C1 (as claimed): a call that has to load the training table and cannot
\* raises MemberDataError: 'Training database not found' when the file is
\* missing, 'Failed to load training CSV' when it is no table.
C1_LoadFailureIsMemberDataError ==
    pc \in {"load", "get_all_members", "filter_members"} =>
        /\ ~training_csv.exists =>
              raised = [type |-> "MemberDataError",
                        message |-> "Training database not found"]
        /\ training_csv.exists /\ ~training_csv.readable =>
              raised = [type |-> "MemberDataError",
                        message |-> "Failed to load training CSV"]

-----------------------------------------------------------------------------
(* database.MemberDatabase: _prettify_unit_number and _prettify_unit_name   *)
(* under their arguments.  data is the argument, result what is returned.  *)

\* The texts _prettify_unit_number is given: digits, one too few and one too
\* many, other characters among them, with and without whitespace around.
UnitNumberCores ==
    { Chars("0131102"), Chars("1234567"), Chars("013110"), Chars("01311020"),
      Chars("013110A"), Chars("013-11-02"), Chars("0131 02"), <<>>,
      Chars("0131") \o <<"U+00B2">> \o Chars("02"),
      <<"U+0661">> \o Chars("131102") }

UnitNumberArgs ==
    { PyStr(lead \o core \o trail) :
        lead \in {<<>>, <<" ">>}, core \in UnitNumberCores,
        trail \in {<<>>, <<" ">>, <<"\n">>} }
    \cup { None, NaN, NA, PyInt(131102), PyFloat(131102, 0), PyBool(TRUE) }

\* The names _prettify_unit_name is given: a stem, then an ending.
UnitNameStems ==
    { <<>>, Chars("WOODS HOLE"), Chars("casco bay"), Chars("BAY FLOTILLA"),
      Chars("FLOTILLA"), Chars("X FLT."), Chars("o'neil"),
      Chars("3rd"), Chars("CAF") \o <<"U+00C9">> }

UnitNameEndings ==
    { <<>>, Chars(" FLOTILLA"), Chars(" Flot"), Chars(" FLOT."), Chars(" flt"),
      Chars(" FLT."), Chars("  FLT "), Chars("FLOTILLA"), Chars(" FLOTILLAS") }

UnitNameArgs ==
    { PyStr(stem \o ending) : stem \in UnitNameStems, ending \in UnitNameEndings }
    \cup { None, NaN, PyInt(7) }

PrettyInit ==
    /\ pc = "start"
    /\ data \in UnitNumberArgs \cup UnitNameArgs
    /\ given = <<>>
    /\ result = None
    /\ clock = NoClock
    /\ ticks = 0
    /\ extraction_date = None
    /\ courses_csv = NoCsv
    /\ training_csv = NoCsv
    /\ email_csv = NoCsv
    /\ units_csv = NoCsv
    /\ members_df = None
    /\ units_df = None
    /\ raised = NoException

\* self._prettify_unit_number(data)
PrettifyUnitNumber ==
    /\ pc = "start"
    /\ result' = prettify_unit_number(data)
    /\ pc' = "unit_number"
    /\ UNCHANGED <<clock, ticks, data, given, extraction_date, courses_csv,
                   training_csv, email_csv, units_csv, members_df, units_df,
                   raised>>

\* self._prettify_unit_name(data)
PrettifyUnitName ==
    /\ pc = "start"
    /\ result' = prettify_unit_name(data)
    /\ pc' = "unit_name"
    /\ UNCHANGED <<clock, ticks, data, given, extraction_date, courses_csv,
                   training_csv, email_csv, units_csv, members_df, units_df,
                   raised>>

PrettyNext == PrettifyUnitNumber \/ PrettifyUnitName

SpecPretty == PrettyInit /\ [][PrettyNext]_vars

\* The names _create_fso_display_name and _lookup_fso_email are given: a
\* first name, perhaps a middle initial, perhaps a last name, then suffixes.
FsoFirstNames == { Chars("JOHN"), Chars("jane"), Chars("Mary") }
FsoMiddles == { <<>>, Chars(" J") }
FsoLastNames == { <<>>, Chars(" DOE"), Chars(" smith"), Chars(" O'NEIL") }
FsoSuffixes ==
    { <<>>, Chars(" JR."), Chars(" jr"), Chars(" III"), Chars("  V "),
      Chars(" JR. III"), Chars(" SR II"), Chars(" ESQ") }

FsoNameArgs ==
    { PyStr(first \o middle \o last \o suffix) :
        first \in FsoFirstNames, middle \in FsoMiddles, last \in FsoLastNames,
        suffix \in FsoSuffixes }
    \cup { None, NaN, PyInt(7), Str(""), Str("DOE") }

DisplayInit ==
    /\ pc = "start"
    /\ data \in FsoNameArgs
    /\ given \in {Email_Plain, Email_Twice}
    /\ result = None
    /\ clock = NoClock
    /\ ticks = 0
    /\ extraction_date = None
    /\ courses_csv = NoCsv
    /\ training_csv = NoCsv
    /\ email_csv = NoCsv
    /\ units_csv = NoCsv
    /\ members_df = None
    /\ units_df = None
    /\ raised = NoException

\* self._create_fso_display_name(data)
CreateFsoDisplayName ==
    /\ pc = "start"
    /\ result' = create_fso_display_name(data)
    /\ pc' = "display"
    /\ UNCHANGED <<clock, ticks, data, given, extraction_date, courses_csv,
                   training_csv, email_csv, units_csv, members_df, units_df,
                   raised>>

\* self._lookup_fso_email(data, given)
LookupFsoEmail ==
    /\ pc = "start"
    /\ result' = lookup_fso_email(data, given)
    /\ pc' = "lookup"
    /\ UNCHANGED <<clock, ticks, data, given, extraction_date, courses_csv,
                   training_csv, email_csv, units_csv, members_df, units_df,
                   raised>>

DisplayNext == CreateFsoDisplayName \/ LookupFsoEmail

SpecDisplay == DisplayInit /\ [][DisplayNext]_vars

\* A token that is one of the listed suffixes, whatever its case.
IsNameSuffix(token) == Upper(token) \in name_suffixes

\* The tokens of a name up to the last one that is not a suffix.
RECURSIVE NonSuffixTokens(_)
NonSuffixTokens(parts) ==
    IF parts # <<>> /\ IsNameSuffix(parts[Len(parts)])
    THEN NonSuffixTokens(SubSeq(parts, 1, Len(parts) - 1))
    ELSE parts

\* C25 (as claimed): the display name is the title-cased first token and
\* the title-cased last token that is not a suffix, so its second word is
\* never a suffix, however many suffixes the name carries; it is null when
\* fewer than two tokens remain; and _lookup_fso_email matches on the same
\* first and last tokens.
C25_DisplayNameSkipsSuffixes ==
    (pc \in {"display", "lookup"} /\ data.t = "str") =>
        LET kept == NonSuffixTokens(Split(data.s)) IN
        /\ pc = "display" =>
              result = IF Len(kept) < 2 THEN None
                       ELSE PyStr(Title(kept[1]) \o <<" ">> \o Title(kept[Len(kept)]))
        /\ pc = "lookup" => result = lookup_parts_email(kept, given)

\* A string of exactly seven ASCII digits.
SevenAsciiDigits(v) ==
    v.t = "str" /\ Len(v.s) = 7 /\ \A i \in 1..7 : v.s[i] \in DigitSet

\* C11 (as claimed): _prettify_unit_number returns DDD-VV-UU exactly for a
\* string of exactly seven ASCII digits, and None for every other argument:
\* another length (seven digits with whitespace around them too), another
\* character, a value that is no string.
C11_SevenAsciiDigitsOnly ==
    pc = "unit_number" =>
        IF SevenAsciiDigits(data)
        THEN result = PyStr(SubSeq(data.s, 1, 3) \o <<"-">> \o SubSeq(data.s, 4, 5)
                            \o <<"-">> \o SubSeq(data.s, 6, 7))
        ELSE result = None

\* The abbreviations a title-cased name ends with (at most one of the five).
TrailingAbbreviations(name) ==
    {a \in {Chars(" Flotilla"), Chars(" Flot"), Chars(" Flot."), Chars(" Flt"),
            Chars(" Flt.")} : EndsWith(name, a)}

\* The title-cased, trimmed name without its trailing abbreviation, trimmed.
NameStem(name) ==
    LET t == Title(Strip(name))
        as == TrailingAbbreviations(t)
    IN IF as = {} THEN t
       ELSE Strip(SubSeq(t, 1, Len(t) - Len(CHOOSE a \in as : TRUE)))

\* Title-cased: there is a letter, and a letter is a capital exactly when no
\* letter precedes it.
IsTitleCased(s) ==
    /\ \E i \in 1..Len(s) : IsCased(s[i])
    /\ \A i \in 1..Len(s) :
          IsCased(s[i]) =>
              ((s[i] \in UpperSet \/ s[i] = UpperOther[1])
                  <=> (i = 1 \/ ~IsCased(s[i - 1])))

\* C12 (as claimed): for a string, _prettify_unit_name returns a title-cased
\* string that ends with "Flotilla", in which the trailing abbreviation of the
\* input has been replaced by a single ' Flotilla'.
C12_AbbreviationReplaced ==
    pc = "unit_name" /\ data.t = "str" =>
        /\ result.t = "str"
        /\ IsTitleCased(result.s)
        /\ EndsWith(result.s, Chars("Flotilla"))
        /\ TrailingAbbreviations(Title(Strip(data.s))) # {} =>
              result.s = NameStem(data.s) \o Chars(" Flotilla")

\* C12 (amended): for a string, _prettify_unit_name returns a string that
\* ends with "Flotilla": the trimmed, title-cased name without its trailing
\* abbreviation, trimmed again, and ' Flotilla' after it unless what is left
\* already ends with 'Flotilla'.
C12_EndsWithFlotilla ==
    pc = "unit_name" /\ data.t = "str" =>
        /\ result.t = "str"
        /\ EndsWith(result.s, Chars("Flotilla"))
        /\ result.s = IF EndsWith(NameStem(data.s), Chars("Flotilla"))
                      THEN NameStem(data.s)
                      ELSE NameStem(data.s) \o Chars(" Flotilla")

\* An abbreviation is removed from a name that holds 'Flotilla' before it.
C12_Witness ==
    /\ pc = "unit_name"
    /\ data = Str("BAY FLOTILLA FLT.")
    /\ result = Str("Bay Flotilla")

-----------------------------------------------------------------------------
(* context.process_name_formatting and context.normalize_template_context  *)

K_first_name == Chars("first_name")
K_First_Name == Chars("First Name")
K_first_name_titlecase == Chars("first_name_titlecase")

\* str.isupper(): there is a letter and no letter is a small one.
isupper(s) ==
    /\ \E i \in 1..Len(s) : IsCased(s[i])
    /\ \A i \in 1..Len(s) : s[i] \notin LowerSet /\ s[i] # LowerOther[1]

\* The value stored under 'first_name_titlecase' (context.py lines 84-88).
first_name_titlecase(first_name) ==
    IF Truthy(first_name) /\ first_name.t = "str" /\ isupper(first_name.s)
    THEN PyStr(Title(first_name.s))
    ELSE first_name

\* A slip: the stage returns a new dict that holds the new key alone.
process_name_formatting_new_dict(d) ==
    Put(<<>>, K_first_name_titlecase,
        first_name_titlecase(PyOr(Get(d, K_first_name), Get(d, K_First_Name))))

\* process_name_formatting(data): the dict after the call.
process_name_formatting(d) ==
    Put(d, K_first_name_titlecase,
        first_name_titlecase(PyOr(Get(d, K_first_name), Get(d, K_First_Name))))

\* The records normalize_template_context is given.
TemplateRecords ==
    { <<>>,
      << [k |-> K_First_Name, v |-> Str("JANE")],
         [k |-> Chars("Last Name"), v |-> Str("SMITH")] >>,
      << [k |-> Chars("Member #"), v |-> Str("1000001")],
         [k |-> K_First_Name, v |-> Str("JOHN")],
         [k |-> K_Uniform_Inspection, v |-> Str("2/20/2025")],
         [k |-> K_Uniform_Exempt, v |-> PyInt(0)],
         [k |-> PAWR_810015, v |-> PyInt(100)] >>,
      << [k |-> K_First_Name, v |-> Str("Mary Ann")],
         [k |-> Chars("Current Year"), v |-> Str("1999")],
         [k |-> K_Uniform_Exempt, v |-> Str("1")],
         [k |-> SP_100643, v |-> PyInt(0)] >>,
      << [k |-> K_first_name, v |-> NaN],
         [k |-> Chars("Courses Overdue"), v |-> Str("x")],
         [k |-> PAWR_810015, v |-> PyInt(-10)] >>,
      << [k |-> PAWR_810015, v |-> PyInt(800)],
         [k |-> SP_100643, v |-> PyFloat(900, 0)] >>,
      << [k |-> PAWR_810015, v |-> Inf],
         [k |-> SP_100643, v |-> PyInt(30)] >> }

TemplateInit ==
    /\ pc = "start"
    /\ data \in TemplateRecords
    /\ given = data
    /\ result = <<>>
    /\ clock \in StartClocks
    /\ ticks = 0
    /\ extraction_date \in {None, Str("10/01/2025"), Str("invalid-date")}
    /\ courses_csv \in
          {NoCsv, [exists |-> TRUE, readable |-> TRUE, rows |-> <<Row_PAWR, Row_SP>>]}
    /\ training_csv = NoCsv
    /\ email_csv = NoCsv
    /\ units_csv = NoCsv
    /\ members_df = None
    /\ units_df = None
    /\ raised = NoException

\* What a stage of normalize_template_context leaves alone.
TemplateUnchanged ==
    UNCHANGED <<ticks, data, extraction_date, courses_csv, training_csv,
                email_csv, units_csv, members_df, units_df, raised>>

\* result = normalize_keys(data) (context.py line 260): a new dict.
TemplateNormalizeKeys ==
    /\ pc = "start"
    /\ result' = normalize_keys(data)
    /\ given' = data
    /\ pc' = "keys"
    /\ UNCHANGED clock
    /\ TemplateUnchanged

\* result = add_date_context(result, extraction_date) (line 263)
TemplateAddDateContext ==
    /\ pc = "keys"
    /\ \E now1 \in LaterNow(clock) :
        \E now \in (IF uses_now_as_reference(extraction_date)
                    THEN LaterNow(now1) ELSE {now1}) :
          /\ result' = add_date_context(result, extraction_date, now1, now)
          /\ clock' = now
    /\ given' = result
    /\ pc' = "date"
    /\ TemplateUnchanged

\* result = process_name_formatting(result) (line 266)
TemplateNameFormatting ==
    /\ pc = "date"
    /\ result' = process_name_formatting(result)
    /\ given' = result
    /\ pc' = "name"
    /\ UNCHANGED clock
    /\ TemplateUnchanged

\* result = check_uniform_inspection(result) (line 269)
TemplateUniformInspection ==
    /\ pc = "name"
    /\ \E now \in LaterNow(clock) :
          /\ result' = check_uniform_inspection(result, now)
          /\ clock' = now
    /\ given' = result
    /\ pc' = "uniform"
    /\ TemplateUnchanged

\* result = process_course_warnings(result, courses_csv, extraction_date)
\* (line 272), and the context is returned (line 274).
TemplateCourseWarnings ==
    /\ pc = "uniform"
    /\ \E now1 \in LaterNow(clock) :
        \E now \in (IF uses_now_as_reference(extraction_date)
                    THEN LaterNow(now1) ELSE {now1}) :
          /\ result' = process_course_warnings(result, courses_csv,
                                               extraction_date, now1, now)
          /\ clock' = now
    /\ given' = result
    /\ pc' = "returned"
    /\ TemplateUnchanged

TemplateNext ==
    \/ Tick
    \/ TemplateNormalizeKeys
    \/ TemplateAddDateContext
    \/ TemplateNameFormatting
    \/ TemplateUniformInspection
    \/ TemplateCourseWarnings

SpecTemplate == TemplateInit /\ [][TemplateNext]_vars

\* The keys each stage computes.
DateKeys ==
    {K_current_year, K_current_year_start, K_current_year_end,
     K_extraction_date, K_extraction_plus_365}
NameKeys == {K_first_name_titlecase}
InspectionKeys ==
    {K_uniform_inspection, K_uniform_exempt, K_needs_uniform_inspection}
CourseKeys ==
    {K_courses_overdue, K_courses_due_soon, K_has_overdue_courses,
     K_has_due_soon_courses}

\* The keys computed by the stages that have run when the pipeline is at
\* position p, in the order of the claim.
ComputedAt(p) ==
    (IF p \in {"date", "name", "uniform", "returned"} THEN DateKeys ELSE {})
    \cup (IF p \in {"name", "uniform", "returned"} THEN NameKeys ELSE {})
    \cup (IF p \in {"uniform", "returned"} THEN InspectionKeys ELSE {})
    \cup (IF p = "returned" THEN CourseKeys ELSE {})

\* C15: normalize_template_context runs normalize_keys, add_date_context,
\* process_name_formatting, check_uniform_inspection, process_course_warnings
\* in this order, each on the context the stage before returned: after every
\* stage the context has every key it had before the stage, the keys of the
\* record and their aliases, and the computed keys of exactly the stages run
\* so far (a computed key of a later stage only if the record brought it);
\* the returned context has the record's keys, the aliases and all thirteen
\* computed keys.
C15_StagesExtendContext ==
    pc # "start" =>
        /\ Keys(given) \subseteq Keys(result)
        /\ Keys(data) \cup Aliases(data) \subseteq Keys(result)
        /\ ComputedAt(pc) \subseteq Keys(result)
        /\ Keys(result) \subseteq Keys(data) \cup Aliases(data) \cup ComputedAt(pc)
        /\ pc = "returned" =>
              /\ Cardinality(ComputedAt(pc)) = 13
              /\ Get(result, K_current_year) = PyInt(YearOf(clock.day))
                    \/ Get(result, K_current_year) = PyInt(YearOf(clock.day) - 1)

\* C29 (as claimed): whenever the current date is on or after the
\* extraction date and the context returned has both courses_overdue and
\* courses_due_soon empty, every course of the table for which the member
\* has a numeric day-offset is due (extraction date + offset) strictly
\* later than the context's extraction_plus_365.
C29_HorizonConsistent ==
    (/\ pc = "returned" /\ TableRead
     /\ ValidDateArg(extraction_date) /\ clock.day >= ExtractionDay
     /\ OutOverdue = <<>> /\ OutDueSoon = <<>>) =>
        \A i \in 1..Len(courses_csv.rows) :
            HasIntOffset(i) =>
                ExtractionDay + RowOffset(i)
                    > StrpTime(Item(result, K_extraction_plus_365).s).dt.day

\* The record with no fields has gone through the five stages.
C15_Witness ==
    /\ pc = "returned"
    /\ data = <<>>
    /\ Keys(result) = DateKeys \cup NameKeys \cup InspectionKeys \cup CourseKeys

-----------------------------------------------------------------------------
(* db.get_all_members() followed by context.normalize_template_context *)

C_Scenario_Unit_Field == Str("Unit: 0131102 | DOE. JOHN ...")

\* How pd.read_csv types the Member # column of a training file that holds
\* the row ' 1000001 ': text when another row's number is no number,
\* integers when every row's is one, floats when a row has none; and the
\* Uniform Exempt column likewise.
ScenarioMemberCells ==
    { <<Str(" 1000001 "), Str("X-2")>>,
      <<PyInt(1000001), PyInt(1000002)>>,
      <<PyFloat(1000001, 0), NaN>> }

ScenarioExemptCells == { <<PyInt(0), PyInt(1)>>, <<PyFloat(0, 0), NaN>> }

ScenarioTraining(m, e) ==
    [columns |-> <<C_Member_num, C_unit_field, K_Uniform_Inspection, K_Uniform_Exempt>>,
     rows |-> << <<m[1], C_Scenario_Unit_Field, Str("2/20/2025"), e[1]>>,
                 <<m[2], Str("Unit: 0140203 | ROE. JANE"), NaN, e[2]>> >>]

ScenarioInit ==
    /\ pc = "db"
    /\ data = <<>>
    /\ given = <<>>
    /\ result = <<>>
    /\ clock \in StartClocks
    /\ ticks = 0
    /\ extraction_date \in {None, Str("10/01/2025")}
    /\ courses_csv = NoCsv
    /\ training_csv \in { Table(ScenarioTraining(m, e)) :
                            m \in ScenarioMemberCells, e \in ScenarioExemptCells }
    /\ email_csv \in {NoCsv, Table(Email_Plain)}
    /\ units_csv \in {NoCsv, Table(Units_Plain)}
    /\ members_df = None
    /\ units_df = None
    /\ raised = NoException

\* members = db.get_all_members(), and one of the members is taken up.
ScenarioMembers ==
    /\ pc = "db"
    /\ LoadEffect("start")
    /\ \E i \in 1..Len(members_df'.rows) : data' = ToRecords(members_df')[i]
    /\ given' = data'
    /\ result' = <<>>
    /\ UNCHANGED <<clock, ticks, extraction_date, courses_csv, training_csv,
                   email_csv, units_csv>>

ScenarioNext == ScenarioMembers \/ TemplateNext

SpecScenario == ScenarioInit /\ [][ScenarioNext]_vars

\* The member of the documented training row.
ScenarioMember == Get(data, C_unit_field) = C_Scenario_Unit_Field

-----------------------------------------------------------------------------
(* mailer.normalize_template_context: the context of the emails that are sent *)

\* mailer.py lines 52-58: the year keys and the extraction date.
mailer_date_keys(d, ed, now1, now) ==
    Put(Put(Put(Put(d, K_current_year, PyInt(YearOf(now.day))),
                K_current_year_start, PyStr(Chars("1/1/") \o NatStr(YearOf(now.day)))),
            K_current_year_end, PyStr(Chars("12/31/") \o NatStr(YearOf(now.day)))),
        K_extraction_date, extraction_date_out(ed, reference_date(ed, now1)))

\* mailer.py lines 61-82: the inspection date is compared with January 1;
\* the exemption flag is not read.
mailer_inspection_outcome(d, now) ==
    inspection_outcome(PyOr(Get(d, K_uniform_inspection), Get(d, K_Uniform_Inspection)),
                       FALSE, now)

mailer_inspection(d, now) ==
    Put(Put(d, K_uniform_inspection, mailer_inspection_outcome(d, now).ui),
        K_needs_uniform_inspection, PyBool(mailer_inspection_outcome(d, now).needs))

\* mailer.normalize_template_context(data, courses_csv, extraction_date): the
\* dict returned; now1 is the instant of the fallback's datetime.now()
\* (lines 40, 42), now the instant of the call on line 52.  The key loop is
\* that of context.normalize_keys, the course loop (lines 85-152) that of
\* context.process_course_warnings.
mailer_normalize_template_context(d, csv, ed, now1, now) ==
    process_course_warnings(
        mailer_inspection(mailer_date_keys(normalize_keys(d), ed, now1, now), now),
        csv, ed, now1, now)

\* context.normalize_template_context with the same two instants for every
\* stage (context.py lines 260-274).
normalize_template_context(d, csv, ed, now1, now) ==
    process_course_warnings(
        check_uniform_inspection(
            process_name_formatting(add_date_context(normalize_keys(d), ed, now1, now)),
            now),
        csv, ed, now1, now)

\* normalized = normalize_template_context(member, courses_csv,
\* extraction_date), as main and send_bulk_emails call it.
MailerNormalize ==
    /\ pc = "start"
    /\ \E now \in (IF uses_now_as_reference(extraction_date)
                   THEN LaterNow(clock) ELSE {clock}) :
          /\ result' = mailer_normalize_template_context(data, courses_csv,
                                                         extraction_date, clock, now)
          /\ clock' = now
    /\ given' = data
    /\ pc' = "mailed"
    /\ TemplateUnchanged

MailerNext == Tick \/ MailerNormalize

SpecMailer == TemplateInit /\ [][MailerNext]_vars

\* The keys both functions produce that the claim names.
SharedKeys ==
    {K_needs_uniform_inspection, K_uniform_inspection, K_courses_overdue,
     K_courses_due_soon, K_has_overdue_courses, K_has_due_soon_courses}

\* C26 (as claimed): the context of the send path agrees with
\* context.normalize_template_context, run at the same instants, on
\* needs_uniform_inspection, uniform_inspection, the two course lists and the
\* two flags; so a member whose exemption flag is '1' or '1.0' needs no
\* inspection in the email that is sent.
C26_SendPathAgrees ==
    pc = "mailed" =>
        /\ \E now1 \in {clock, PrevTick(clock)} :
              \A k \in SharedKeys :
                  Get(result, k)
                    = Get(normalize_template_context(data, courses_csv,
                                                     extraction_date, now1, clock), k)
        /\ (\E v \in FieldValues(data, K_uniform_exempt, K_Uniform_Exempt) : ExemptFlag(v))
              => Get(result, K_needs_uniform_inspection) = PyBool(FALSE)

-----------------------------------------------------------------------------
(* The caller's mapping: normalize_template_context and the stages called *)
(* directly.  data is the caller's dict, result what the call returned.   *)

\* A slip: the pipeline works on the caller's dict, which it returns.
NormalizeTemplateContext_in_place ==
    /\ pc = "start"
    /\ \E now \in (IF uses_now_as_reference(extraction_date)
                   THEN LaterNow(clock) ELSE {clock}) :
          /\ data' = normalize_template_context(data, courses_csv,
                                                extraction_date, clock, now)
          /\ clock' = now
    /\ result' = data'
    /\ given' = data
    /\ pc' = "normalized"
    /\ UNCHANGED <<ticks, extraction_date, courses_csv, training_csv,
                   email_csv, units_csv, members_df, units_df, raised>>

\* result = normalize_template_context(data, courses_csv, extraction_date):
\* normalize_keys builds a new dict (context.py lines 42, 260), the stages
\* write into that one, and it is returned; data is not written.
NormalizeTemplateContext ==
    /\ pc = "start"
    /\ \E now \in (IF uses_now_as_reference(extraction_date)
                   THEN LaterNow(clock) ELSE {clock}) :
          /\ result' = normalize_template_context(data, courses_csv,
                                                  extraction_date, clock, now)
          /\ clock' = now
    /\ given' = data
    /\ pc' = "normalized"
    /\ TemplateUnchanged

\* The caller normalizes the same record once more.
NormalizeTemplateContextAgain ==
    /\ pc = "normalized"
    /\ \E now \in (IF uses_now_as_reference(extraction_date)
                   THEN LaterNow(clock) ELSE {clock}) :
          /\ result' = normalize_template_context(data, courses_csv,
                                                  extraction_date, clock, now)
          /\ clock' = now
    /\ given' = data
    /\ pc' = "normalized twice"
    /\ TemplateUnchanged

\* result = process_name_formatting(data): data is updated in place and
\* returned.
ProcessNameFormatting ==
    /\ pc = "start"
    /\ data' = process_name_formatting(data)
    /\ given' = data
    /\ result' = data'
    /\ pc' = "named"
    /\ UNCHANGED <<clock, ticks, extraction_date, courses_csv, training_csv,
                   email_csv, units_csv, members_df, units_df, raised>>

StagesNext ==
    \/ Tick
    \/ NormalizeTemplateContext
    \/ NormalizeTemplateContextAgain
    \/ AddDateContext
    \/ ProcessNameFormatting
    \/ CheckUniformInspection
    \/ ProcessCourseWarnings

SpecStages == TemplateInit /\ [][StagesNext]_vars

\* The keys the stage that leads to position p sets.
StageKeys(p) ==
    CASE p = "dated" -> DateKeys
      [] p = "named" -> NameKeys
      [] p = "inspected" -> InspectionKeys
      [] p = "warned" -> CourseKeys
      [] OTHER -> {}

\* C28: normalize_template_context leaves the record it is given as it was
\* and returns another mapping, also when the same record is processed
\* twice; add_date_context, process_name_formatting,
\* check_uniform_inspection and process_course_warnings, called directly,
\* write their keys into the mapping they are given and return that mapping.
C28_OnlyStagesWriteInPlace ==
    /\ pc = "start" => given = data
    /\ pc \in {"normalized", "normalized twice"} =>
          /\ data = given
          /\ result # data
          /\ Keys(data) \subseteq Keys(result)
          /\ \E k \in Keys(result) : k \notin Keys(data)
    /\ pc \in {"dated", "named", "inspected", "warned"} =>
          /\ result = data
          /\ Keys(given) \cup StageKeys(pc) \subseteq Keys(data)

\* A record with fields has been normalized twice and is as it was, while
\* the context returned holds the computed keys.
C28_Witness ==
    /\ pc = "normalized twice"
    /\ data # <<>> /\ data = given
    /\ CourseKeys \cup DateKeys \subseteq Keys(result)
    /\ CourseKeys \cap Keys(data) = {}

-----------------------------------------------------------------------------
(* config.EmailConfig, main.main and the senders' send_bulk_emails *)

K_email == Chars("email")
P_sendgrid == Chars("sendgrid")
P_smtp == Chars("smtp")

\* os.getenv('EMAIL_PROVIDER', 'sendgrid').lower() (main.py line 100,
\* config.py line 56); env is None when the variable is not set.
email_provider(env) == IF env = None THEN P_sendgrid ELSE Lower(env.s)

ConfigError(message, provider) ==
    [type |-> "ConfigError", message |-> message, provider |-> provider]

\* EmailConfig.validate (config.py lines 26-44): the exception raised;
\* configured says that the settings the provider requires are set.
validate(provider, configured) ==
    IF provider \in {P_sendgrid, P_smtp}
    THEN IF configured THEN NoException
         ELSE ConfigError("required settings missing", provider)
    ELSE ConfigError("Unknown email provider", provider)

\* main.py lines 104-132: main goes on after the configuration test.
main_configured(a) ==
    \/ a.dry_run
    \/ email_provider(a.EMAIL_PROVIDER) \in {P_sendgrid, P_smtp} /\ a.configured

\* main.py lines 142-153: the members main selects, from the table load()
\* returned.
main_members(a, df) == ToRecords(filter_rows(df, a.filter, 1))

\* The parameters of send_bulk_emails, the same in EmailSender and in
\* SendGridEmailSender (mailer.py lines 267-273 and 372-378), self aside.
send_bulk_emails_parameters ==
    {"recipients", "template", "template_name", "subject_template",
     "from_email", "courses_csv", "extraction_date"}

\* The keyword arguments of main's call (main.py lines 225-234).
main_keywords == send_bulk_emails_parameters \cup {"save_html_dir"}

\* What a call leaves: the exit code (None when an exception escapes), the
\* exception, whether load() ran, the members the loop got to, and the
\* addresses sent to and failed.
Outcome(exit, e, loaded, visited, success, failed) ==
    [exit |-> exit, raised |-> e, loaded |-> loaded, visited |-> visited,
     success |-> success, failed |-> failed]

TemplateNotFound == [type |-> "TemplateNotFound", message |-> "jinja2"]
TypeError(message) == [type |-> "TypeError", message |-> message]

\* email = normalized.get('email') or normalized.get('Email') (mailer.py
\* line 294)
recipient_email(normalized) == PyOr(Get(normalized, K_email), Get(normalized, C_Email))

\* send_email (mailer.py lines 220-265, 334-370): True when the transport
\* takes the message; every exception is caught and gives False.
send_email(a, email) == email.t = "str" /\ Strip(email.s) \notin a.refused

\* One recipient of send_bulk_emails, from the address on (mailer.py lines
\* 295-315): what is added to the outcome acc.  A recipient without an
\* address is passed over; rendering raises when the template file is
\* missing.
bulk_step(acc, a, i, email) ==
    IF ~Truthy(email) THEN [acc EXCEPT !.visited = Append(@, i)]
    ELSE IF ~a.template
    THEN [acc EXCEPT !.visited = Append(@, i), !.raised = TemplateNotFound]
    ELSE IF send_email(a, email)
    THEN [acc EXCEPT !.visited = Append(@, i), !.success = Append(@, email)]
    ELSE [acc EXCEPT !.visited = Append(@, i), !.failed = Append(@, email)]

\* The loop of send_bulk_emails from recipient i on (mailer.py lines
\* 290-315); acc is the outcome so far.
RECURSIVE bulk_loop(_, _, _, _, _, _, _)
bulk_loop(acc, a, recipients, i, csv, ed, now) ==
    IF i > Len(recipients) \/ acc.raised # NoException THEN acc
    ELSE bulk_loop(
           bulk_step(acc, a, i,
                     recipient_email(mailer_normalize_template_context(
                                         recipients[i], csv, ed, now, now))),
           a, recipients, i + 1, csv, ed, now)

\* sender.send_bulk_emails(**keywords): a keyword that is no parameter raises
\* TypeError before the body runs.
send_bulk_emails(keywords, a, recipients, csv, ed, now) ==
    IF ~(keywords \subseteq send_bulk_emails_parameters)
    THEN Outcome(None, TypeError("unexpected keyword argument"), TRUE, <<>>, <<>>, <<>>)
    ELSE bulk_loop(Outcome(None, NoException, TRUE, <<>>, <<>>, <<>>),
                   a, recipients, 1, csv, ed, now)

\* main.py lines 236-246: the exit code after send_bulk_emails.
main_summary(r) ==
    IF r.raised # NoException THEN r
    ELSE [r EXCEPT !.exit = IF r.failed = <<>> THEN PyInt(0) ELSE PyInt(1)]

\* main.py lines 155-246, members selected.  The dry run renders for the
\* first member (for every member with --save-html) and returns 0.
main_with_members(a, members, csv, ed, now) ==
    IF members = <<>> THEN Outcome(PyInt(0), NoException, TRUE, <<>>, <<>>, <<>>)
    ELSE IF a.dry_run
    THEN IF a.template
         THEN Outcome(PyInt(0), NoException, TRUE, <<>>, <<>>, <<>>)
         ELSE Outcome(None, TemplateNotFound, TRUE, <<>>, <<>>, <<>>)
    ELSE main_summary(send_bulk_emails(main_keywords, a, members, csv, ed, now))

\* main(): the outcome of a run with the command line and environment a,
\* r being what load() gives when main comes to call it (main.py lines
\* 139-153).
main(a, r, csv, ed, now) ==
    IF ~main_configured(a)
    THEN Outcome(PyInt(1), NoException, FALSE, <<>>, <<>>, <<>>)
    ELSE IF r.raised # NoException
    THEN Outcome(None, r.raised, TRUE, <<>>, <<>>, <<>>)
    ELSE main_with_members(a, main_members(a, r.members_df), csv, ed, now)

\* The runs of the model: EMAIL_PROVIDER, whether the provider's settings are
\* set, --dry-run, whether the template file is there, --filter as criteria,
\* and the addresses the transport does not take.  (--save-html changes
\* neither the exit code nor what is sent: main passes save_html_dir in
\* every call, None included.)
MainRuns ==
    [EMAIL_PROVIDER : {None, Str("sendgrid"), Str("SMTP"), Str("mailgun"), Str("")},
     configured : BOOLEAN, dry_run : BOOLEAN,
     template : BOOLEAN,
     filter : {<<>>, <<[k |-> C_First_Name, v |-> Str("JANE")]>>},
     refused : {{}, {Chars("jane@x.org")}}]

MainInit ==
    /\ pc = "start"
    /\ given \in MainRuns
    /\ data = <<>>
    /\ result = <<>>
    /\ clock = [day |-> Ymd2Ord(2026, 6, 15), tod |-> 1]
    /\ ticks = 0
    /\ extraction_date = None
    /\ courses_csv = NoCsv
    /\ training_csv \in {NoCsv, Table(Training_Plain)}
    /\ email_csv \in {NoCsv, Table(Email_Plain)}
    /\ units_csv = NoCsv
    /\ members_df = None
    /\ units_df = None
    /\ raised = NoException

MainUnchanged ==
    UNCHANGED <<clock, ticks, data, given, extraction_date, courses_csv,
                training_csv, email_csv, units_csv, members_df, units_df>>

\* config.load_email_config(): the configuration is built from the
\* environment and validated (config.py lines 56-71).
LoadEmailConfig ==
    /\ pc = "start"
    /\ raised' = validate(email_provider(given.EMAIL_PROVIDER), given.configured)
    /\ result' = <<>>
    /\ pc' = "config"
    /\ MainUnchanged

\* exit(main())
Main ==
    /\ pc = "start"
    /\ \E r \in {load(training_csv, email_csv, units_csv, None)} :
          result' = main(given, r, courses_csv, extraction_date, clock)
    /\ raised' = result'.raised
    /\ pc' = "main"
    /\ MainUnchanged

\* sender.send_bulk_emails(recipients=db.get_all_members(), ...) with the
\* parameters of the method, as a caller other than main makes it.
SendBulkEmails ==
    /\ pc = "start"
    /\ \E r \in {load(training_csv, email_csv, units_csv, None)} :
          /\ r.raised = NoException
          /\ result' = send_bulk_emails(send_bulk_emails_parameters, given,
                                        ToRecords(r.members_df), courses_csv,
                                        extraction_date, clock)
    /\ raised' = result'.raised
    /\ pc' = "bulk"
    /\ MainUnchanged

MainNext == LoadEmailConfig \/ Main \/ SendBulkEmails

SpecMain == MainInit /\ [][MainNext]_vars

UnknownProvider ==
    email_provider(given.EMAIL_PROVIDER) \notin {P_sendgrid, P_smtp}

\* C22 (as claimed): with a provider other than 'sendgrid' or 'smtp',
\* validate raises ConfigError naming the provider, and main returns a
\* non-zero exit code without loading or sending, whatever the other
\* arguments are, --dry-run included.
C22_UnknownProviderFails ==
    UnknownProvider =>
        /\ pc = "config" =>
              /\ raised.type = "ConfigError"
              /\ raised.provider = email_provider(given.EMAIL_PROVIDER)
        /\ pc = "main" =>
              /\ result.exit = PyInt(1)
              /\ ~result.loaded
              /\ result.success = <<>> /\ result.failed = <<>>

\* The members main selects in this state (empty when load() fails).
SelectedMembers ==
    LET r == load(training_csv, email_csv, units_csv, None) IN
    IF r.raised # NoException THEN <<>> ELSE main_members(given, r.members_df)

\* C30 (as claimed): in a run of main that is not a dry run, with a valid
\* provider configuration, the template in place and at least one member
\* selected, the call of send_bulk_emails is accepted (no TypeError), the
\* loop visits every selected member in order, whether or not a send fails,
\* and main returns 0 iff results['failed'] is empty and 1 otherwise.
C30_MainSendsToAll ==
    (/\ pc = "main" /\ ~given.dry_run /\ given.template
     /\ main_configured(given) /\ SelectedMembers # <<>>) =>
        /\ raised = NoException
        /\ result.visited = [i \in 1..Len(SelectedMembers) |-> i]
        /\ result.exit = IF result.failed = <<>> THEN PyInt(0) ELSE PyInt(1)

=============================================================================
